---- MODULE Spec2Model ----
(***************************************************************************)
(* A model of quadplay's asynchronous game loader,                         *)
(* console/quadplay-load.js: the hexadecimal colour reader, the RGBA4      *)
(* pixel quantiser and the manifest-driven fetch graph of afterLoadGame.   *)
(***************************************************************************)
EXTENDS Integers, Sequences, FiniteSets, TLC

VARIABLES
    hexStr,      \* parseHexColor: the argument, a sequence of hex digit values
    hexRes,      \* parseHexColor: the call's outcome (pending, throw, return)
    qRaw,        \* getImageData4Bit: the samples getImageData returned
    qData,       \* getImageData4Bit: the Uint32Array being quantised
    qPasses,     \* getImageData4Bit: how often the buffer was quantised
    gameJSON,    \* the manifest the server holds at gameURL
    called,      \* whether afterLoadGame was called
    load,        \* loadManager, gameSource, fileContents, resourceStats and
                 \* the invocations of the caller's two callbacks
    earlier,     \* the LoadManager of an earlier call of afterLoadGame that
                 \* a later call has replaced, and its callbacks' invocations
    sheet,       \* loadSpritesheet and loadMap: one sheet image, its
                 \* descriptor, the heap of sprite records and the tile layers
    parse,       \* _parse: the source text and the call's outcome
    constEval    \* evalJSONGameConstant: the definition and the call's outcome

hexVars == <<hexStr, hexRes>>
quantVars == <<qRaw, qData, qPasses>>
loadVars == <<gameJSON, called, load, earlier>>
decodeVars == <<sheet, parse, constEval>>
vars == <<hexStr, hexRes, qRaw, qData, qPasses, gameJSON, called, load,
          earlier, sheet, parse, constEval>>

(***************************************************************************)
(* Bounds of the model.                                                    *)
(***************************************************************************)
MaxHexLen == 9
MaxShortHexLen == 2
MaxPixels == 1
MaxPasses == 2
MaxScripts == 1
MaxModes == 2
MaxSheetW == 3
MaxSheetH == 2
MaxSourceLen == 4
MaxProperties == 3
MaxOffsetLen == 3

AllHexDigits == 0..15
SampleHexDigits == {0, 8, 15}
ChannelSamples == {0, 143, 255}

(***************************************************************************)
(* parseHex and parseHexColor.  A string of hex digits is the sequence of  *)
(* its digit values; a channel is the exact fraction [n, d].               *)
(***************************************************************************)
RECURSIVE StripLeadingZeros(_)
StripLeadingZeros(str) ==
    IF Len(str) > 0 /\ Head(str) = 0 THEN StripLeadingZeros(Tail(str)) ELSE str

RECURSIVE ParseInt16(_)
ParseInt16(str) ==
    IF Len(str) = 0 THEN 0
    ELSE 16 * ParseInt16(SubSeq(str, 1, Len(str) - 1)) + str[Len(str)]

Frac(n, d) == [n |-> n, d |-> d]

\* The divisor taken from the string after its leading zeros were removed.
parseHexDivAfterStrip(str) ==
    LET stripped == StripLeadingZeros(str)
        div == IF Len(stripped) = 2 THEN 255 ELSE 15
    IN  IF Len(stripped) = 0 THEN Frac(0, 1)
        ELSE Frac(ParseInt16(stripped), div)

parseHex(str) ==
    LET div == IF Len(str) = 2 THEN 255 ELSE 15
        stripped == StripLeadingZeros(str)
    IN  IF Len(stripped) = 0 THEN Frac(0, 1)
        ELSE Frac(ParseInt16(stripped), div)

Colour(r, g, b, a) == [r |-> r, g |-> g, b |-> b, a |-> a]

\* What a call of parseHexColor ends with: the colour returned, or the throw.
Return(c) == [status |-> "return", r |-> c.r, g |-> c.g, b |-> c.b, a |-> c.a]

Undefined == Frac(0, 0)

Throw == [status |-> "throw", r |-> Undefined, g |-> Undefined,
          b |-> Undefined, a |-> Undefined]

Pending == [status |-> "pending", r |-> Undefined, g |-> Undefined,
            b |-> Undefined, a |-> Undefined]

parseHexColor(str) ==
    CASE Len(str) = 8 ->
            Return(Colour(parseHex(SubSeq(str, 1, 2)), parseHex(SubSeq(str, 3, 4)),
                   parseHex(SubSeq(str, 5, 6)), parseHex(SubSeq(str, 7, 8))))
      [] Len(str) = 6 ->
            Return(Colour(parseHex(SubSeq(str, 1, 2)), parseHex(SubSeq(str, 3, 4)),
                   parseHex(SubSeq(str, 5, 6)), Frac(1, 1)))
      [] Len(str) = 4 ->
            Return(Colour(parseHex(<<str[1]>>), parseHex(<<str[2]>>),
                   parseHex(<<str[3]>>), parseHex(<<str[4]>>)))
      [] Len(str) = 3 ->
            Return(Colour(parseHex(<<str[1]>>), parseHex(<<str[2]>>),
                   parseHex(<<str[3]>>), Frac(1, 1)))
      [] Len(str) = 2 ->
            Return(Colour(parseHex(str), parseHex(str), parseHex(str), Frac(1, 1)))
      [] Len(str) = 1 ->
            Return(Colour(parseHex(str), parseHex(str), parseHex(str), Frac(1, 1)))
      [] OTHER -> Throw

(***************************************************************************)
(* getImageData4Bit.  A Uint32Array element is its 32 bits, bit 0 the      *)
(* least significant; on a little-endian machine the sample is 0xAABBGGRR, *)
(* so channel k (0 = R .. 3 = A) is bits 8k .. 8k+7.                       *)
(***************************************************************************)
Bits == 0..31

RECURSIVE Pow2(_)
Pow2(n) == IF n = 0 THEN 1 ELSE 2 * Pow2(n - 1)

BitOf(v, j) == (v \div Pow2(j)) % 2

WordOf(ch) == [i \in Bits |-> BitOf(ch[(i \div 8) + 1], i % 8)]

RECURSIVE ChannelSum(_, _, _)
ChannelSum(w, k, j) ==
    IF j > 7 THEN 0 ELSE w[8 * k + j] * Pow2(j) + ChannelSum(w, k, j + 1)

Channel(w, k) == ChannelSum(w, k, 0)

\* x >> 4 on the int32 of x: the sign bit fills the top
SignedShiftRight4(w) == [i \in Bits |-> IF i + 4 <= 31 THEN w[i + 4] ELSE w[31]]

\* x >>> 4 would fill the top with zeros
ShiftLeft4(w) == [i \in Bits |-> IF i >= 4 THEN w[i - 4] ELSE 0]

BitAnd(a, b) == [i \in Bits |-> a[i] * b[i]]

BitOr(a, b) == [i \in Bits |-> IF a[i] = 1 \/ b[i] = 1 THEN 1 ELSE 0]

Mask0F0F0F0F == [i \in Bits |-> IF (i % 8) < 4 THEN 1 ELSE 0]

\* The quantiser without the mask: c = data[i] >> 4
QuantizeSampleNoMask(w) ==
    LET c == SignedShiftRight4(w)
    IN  BitOr(ShiftLeft4(c), c)

QuantizeSample(w) ==
    LET c == BitAnd(SignedShiftRight4(w), Mask0F0F0F0F)
    IN  BitOr(ShiftLeft4(c), c)

getImageData4Bit(data) == [i \in 1..Len(data) |-> QuantizeSample(data[i])]

(***************************************************************************)
(* getImageData4BitAndFlip.  A buffer is its width, its height and its     *)
(* width * height samples, row by row; element i of a Uint32Array is       *)
(* element i + 1 of the sequence.                                          *)
(***************************************************************************)
Image(w, h, data) == [width |-> w, height |-> h, data |-> data]

OpaqueSample == WordOf(<<255, 143, 0, 255>>)

TranslucentSample == WordOf(<<15, 143, 255, 143>>)

\* The platform's image decoder, on an image that is opaque but for its
\* pixel number image.marked, if it has one
getImageData(image) ==
    [k \in 1..(image.width * image.height) |->
        IF k = image.marked THEN TranslucentSample ELSE OpaqueSample]

\* a fresh Uint32Array holds zeros
ZeroWord == [i \in Bits |-> 0]

\* The flip with j = x + y * width: a copy
getImageData4BitAndFlipCopy(image) ==
    LET data == getImageData4Bit(getImageData(image))
    IN  <<Image(image.width, image.height, data),
          Image(image.width, image.height, data)>>

getImageData4BitAndFlip(image) ==
    LET data == getImageData4Bit(getImageData(image))
        flipped == [k \in 1..Len(data) |->
                      LET i == k - 1
                          y == i \div image.width
                          x == i % image.width
                          j == (image.width - 1 - x) + y * image.width
                      IN  IF y < image.height THEN data[j + 1] ELSE ZeroWord]
    IN  <<Image(image.width, image.height, data),
          Image(image.width, image.height, flipped)>>

(***************************************************************************)
(* The image handler of loadSpritesheet.  Objects live in a heap, a        *)
(* sequence of property maps; a reference is an index into it.  A sprite   *)
(* is the map of its properties (_boundingRadius, a square root, is left   *)
(* out), so Object.assign copies exactly the properties its source holds   *)
(* at the time of the call.                                                *)
(***************************************************************************)
PP == <<1, 1>>
NP == <<-1, 1>>
PN == <<1, -1>>
\* NN written with the y scale of NP
NNPositiveY == <<-1, 1>>

NN == <<-1, -1>>

ObjectAssign(target, source) ==
    [k \in (DOMAIN target) \cup (DOMAIN source) |->
        IF k \in DOMAIN source THEN source[k] ELSE target[k]]

SetProperty(obj, k, v) ==
    [j \in (DOMAIN obj) \cup {k} |-> IF j = k THEN v ELSE obj[j]]

\* data[index] >>> 24; a read past the end of the array is undefined, and
\* undefined >>> 24 is 0
Alpha(data, index) ==
    IF index < Len(data.data) THEN Channel(data.data[index + 1], 3) ELSE 0

hasAlpha(data, json, x, y) ==
    \E j \in 0..(json.spriteSize.y - 1), i \in 0..(json.spriteSize.x - 1) :
       Alpha(data, (y * (json.spriteSize.y + json.gutter) + j) * data.width
                   + x * (json.spriteSize.x + json.gutter) + i) < 255

\* The sprite of grid entry [x][y] and its three flipped versions, appended
\* to the heap in the order: sprite, flippedX, flippedY, flippedY.flippedX
makeSprite(st, json, data, x, y) ==
    LET u == IF json.transpose THEN y ELSE x
        v == IF json.transpose THEN x ELSE y
        a == Len(st.heap) + 1
        id == st.lastSpriteID + 1
        sprite == ("_tileX" :> u) @@ ("_tileY" :> v)
                  @@ ("_x" :> u * (json.spriteSize.x + json.gutter))
                  @@ ("_y" :> v * (json.spriteSize.y + json.gutter))
                  @@ ("_hasAlpha" :> hasAlpha(data, json, x, y))
                  @@ ("spritesheet" :> json.url)
                  @@ ("tileIndex" :> <<u, v>>)
                  @@ ("id" :> id)
                  @@ ("size" :> <<json.spriteSize.x, json.spriteSize.y>>)
                  @@ ("scale" :> PP)
        flippedX == SetProperty(SetProperty(
                        ObjectAssign(("flippedX" :> a), sprite),
                        "scale", NP), "lastSpriteID", id + 1)
        sprite2 == SetProperty(sprite, "flippedX", a + 1)
        flippedY == SetProperty(SetProperty(
                        ObjectAssign(("flippedY" :> a), sprite2),
                        "lastSpriteID", id + 2), "scale", PN)
        sprite3 == SetProperty(sprite2, "flippedY", a + 2)
        both == SetProperty(SetProperty(
                        ObjectAssign(<<>>, sprite3),
                        "scale", NN), "lastSpriteID", id + 3)
    IN  [st EXCEPT !.heap = @ \o <<sprite3,
                                   SetProperty(flippedX, "flippedY", a + 3),
                                   SetProperty(flippedY, "flippedX", a + 3),
                                   both>>,
                   !.lastSpriteID = id + 3,
                   !.frozenObjects = @ \cup {a + 1, a + 2, a + 3, a},
                   !.grid = @ @@ (<<x, y>> :> a)]

\* The column left as it was built, without Object.freeze
RECURSIVE makeColumnUnfrozen(_, _, _, _, _)
makeColumnUnfrozen(st, json, data, x, y) ==
    IF y >= st.rows THEN st
    ELSE makeColumnUnfrozen(makeSprite(st, json, data, x, y), json, data, x, y + 1)

\* for (y < rows) in column x, then Object.freeze(spritesheet[x])
RECURSIVE makeColumn(_, _, _, _, _)
makeColumn(st, json, data, x, y) ==
    IF y >= st.rows THEN [st EXCEPT !.frozenColumns = @ \cup {x}]
    ELSE makeColumn(makeSprite(st, json, data, x, y), json, data, x, y + 1)

\* for (x < cols)
RECURSIVE makeGrid(_, _, _, _)
makeGrid(st, json, data, x) ==
    IF x >= st.cols THEN st
    ELSE makeGrid(makeColumn(st, json, data, x, 0), json, data, x + 1)

\* The state of one decode: the heap, the id counter, the sheet's grid
\* (spritesheet[x][y] as grid[<<x, y>>]), its animation, the objects and the
\* columns Object.freeze was called on, and how the handler ended
NoAnimation == [defined |-> FALSE, frames |-> <<>>, extrapolate |-> "",
                frozen |-> FALSE]

NewSpritesheet(lastSpriteID) ==
    [heap |-> <<>>, lastSpriteID |-> lastSpriteID, grid |-> <<>>,
     cols |-> 0, rows |-> 0, size |-> <<0, 0>>, animation |-> NoAnimation,
     frozenObjects |-> {}, frozenColumns |-> {},
     error |-> "", frozen |-> FALSE, callbacks |-> 0]

sheetThrow(st, error) == [st EXCEPT !.error = error]

\* for (y = start.y; y <= end.y) for (x = start.x; x <= end.x)
Range(a, b) == IF b < a THEN <<>> ELSE [i \in 1..(b - a + 1) |-> a + i - 1]

RECURSIVE Flatten(_)
Flatten(seqs) == IF seqs = <<>> THEN <<>> ELSE Head(seqs) \o Flatten(Tail(seqs))

\* The walk with < in place of <= in both loops
animationCellsExclusive(start, end) ==
    Flatten([j \in 1..Len(Range(start.y, end.y - 1)) |->
                [i \in 1..Len(Range(start.x, end.x - 1)) |->
                    <<Range(start.x, end.x)[i], Range(start.y, end.y)[j]>>]])

animationCells(start, end) ==
    Flatten([j \in 1..Len(Range(start.y, end.y)) |->
                [i \in 1..Len(Range(start.x, end.x)) |->
                    <<Range(start.x, end.x)[i], Range(start.y, end.y)[j]>>]])

RECURSIVE pushFrames(_, _, _, _)
pushFrames(st, json, cells, i) ==
    IF i > Len(cells)
    THEN [st EXCEPT !.animation.frozen = TRUE]
    ELSE LET x == cells[i][1]
             y == cells[i][2]
             u == IF json.transpose THEN y ELSE x
             v == IF json.transpose THEN x ELSE y
         IN  IF u < 0 \/ u >= st.cols \/ v < 0 \/ v >= st.rows
             THEN sheetThrow(st, "OutOfBounds")
             ELSE pushFrames(
                     [st EXCEPT !.animation.frames = Append(@, st.grid[<<u, v>>])],
                     json, cells, i + 1)

\* if (json.names): undefined and 0 are falsy, a string of the model is not
\* empty, an array and an object are truthy
Truthy(names) == names.kind \notin {"none", "zero"}

\* processNames without the test of line 594
processNamesAnyLine(st, json) ==
    IF ~Truthy(json.names) THEN st
    ELSE IF json.names.kind # "object" THEN sheetThrow(st, "NamesNotObject")
    ELSE
      LET data == json.names.animation
      IN  IF (data.hasStart /\ data.hasX) \/ (~data.hasStart /\ ~data.hasX)
          THEN sheetThrow(st, "EitherXYOrStart")
          ELSE
            LET start == IF data.hasX THEN [x |-> data.x, y |-> data.y]
                         ELSE data.start
                extrapolate == IF data.hasX THEN "clamp" ELSE data.extrapolate
                hasEnd == ~data.hasX /\ data.hasEnd
                end == [x |-> IF hasEnd /\ data.end.hasX THEN data.end.x
                              ELSE start.x,
                        y |-> IF hasEnd /\ data.end.hasY THEN data.end.y
                              ELSE start.y]
            IN  IF FALSE
                THEN sheetThrow(st, "NotALine")
                ELSE pushFrames(
                        [st EXCEPT !.animation =
                            [defined |-> TRUE, frames |-> <<>>,
                             extrapolate |-> IF extrapolate = "" THEN "loop"
                                             ELSE extrapolate,
                             frozen |-> FALSE]],
                        json, animationCells(start, end), 1)

\* json.names holds at most one animation here
processNames(st, json) ==
    IF ~Truthy(json.names) THEN st
    ELSE IF json.names.kind # "object" THEN sheetThrow(st, "NamesNotObject")
    ELSE
      LET data == json.names.animation
      IN  IF (data.hasStart /\ data.hasX) \/ (~data.hasStart /\ ~data.hasX)
          THEN sheetThrow(st, "EitherXYOrStart")
          ELSE
            LET start == IF data.hasX THEN [x |-> data.x, y |-> data.y]
                         ELSE data.start
                extrapolate == IF data.hasX THEN "clamp" ELSE data.extrapolate
                hasEnd == ~data.hasX /\ data.hasEnd
                end == [x |-> IF hasEnd /\ data.end.hasX THEN data.end.x
                              ELSE start.x,
                        y |-> IF hasEnd /\ data.end.hasY THEN data.end.y
                              ELSE start.y]
            IN  IF start.x # end.x /\ start.y # end.y
                THEN sheetThrow(st, "NotALine")
                ELSE pushFrames(
                        [st EXCEPT !.animation =
                            [defined |-> TRUE, frames |-> <<>>,
                             extrapolate |-> IF extrapolate = "" THEN "loop"
                                             ELSE extrapolate,
                             frozen |-> FALSE]],
                        json, animationCells(start, end), 1)

\* The handler that loadSpritesheet passes to loadManager.fetch
spritesheetImageHandler(st, json, dataPair) ==
    LET data == dataPair[1]
        gutter == json.gutter
        rows == (data.height + gutter) \div (json.spriteSize.y + gutter)
        cols == (data.width + gutter) \div (json.spriteSize.x + gutter)
        sized == [st EXCEPT !.size = <<data.width, data.height>>,
                            !.rows = IF json.transpose THEN cols ELSE rows,
                            !.cols = IF json.transpose THEN rows ELSE cols]
        named == processNames(makeGrid(sized, json, data, 0), json)
    IN  IF named.error # "" THEN named
        ELSE [named EXCEPT !.frozen = TRUE, !.callbacks = @ + 1]

(***************************************************************************)
(* The tile document handler of loadMap.  A number of the layer text is    *)
(* written <<top, low>> for top * 2^28 + low, with low < 2^28; the bitwise *)
(* operators see the 32 bits of the number parseInt read.                  *)
(***************************************************************************)
ToInt32(gid) ==
    [i \in Bits |-> IF i < 28 THEN BitOf(gid[2], i) ELSE BitOf(gid[1], i - 28)]

Mask80000000 == [i \in Bits |-> IF i = 31 THEN 1 ELSE 0]

Mask40000000 == [i \in Bits |-> IF i = 30 THEN 1 ELSE 0]

Mask0FFFFFFF == [i \in Bits |-> IF i < 28 THEN 1 ELSE 0]

\* The value of an int32 whose four top bits are clear
RECURSIVE ToInteger(_, _)
ToInteger(w, j) == IF j > 27 THEN 0 ELSE w[j] * Pow2(j) + ToInteger(w, j + 1)

NoSprite == 0

\* A TypeError: a property read of undefined
TypeError == -1

\* The lookup with the column count of the decoded sheet in place of the
\* document's columns attribute
tileSpriteSheetColumns(st, columns, gid) ==
    LET tileFlipX == BitAnd(ToInt32(gid), Mask80000000) # ZeroWord
        tileFlipY == BitAnd(ToInt32(gid), Mask40000000) # ZeroWord
        tmxIndex == ToInteger(BitAnd(ToInt32(gid), Mask0FFFFFFF), 0) - 1
        sx == tmxIndex % st.cols
        sy == tmxIndex \div st.cols
    IN  IF tmxIndex < 0 THEN NoSprite
        ELSE IF sx >= st.cols THEN TypeError
        ELSE
          LET sprite == IF sy < st.rows THEN st.grid[<<sx, sy>>] ELSE NoSprite
              spriteX == IF ~tileFlipX THEN sprite
                         ELSE IF sprite = NoSprite THEN TypeError
                         ELSE st.heap[sprite]["flippedX"]
          IN  IF ~tileFlipY \/ spriteX = TypeError THEN spriteX
              ELSE IF spriteX = NoSprite THEN TypeError
              ELSE st.heap[spriteX]["flippedY"]

\* The body of the two loops over x and y: the value stored in the layer,
\* or the TypeError the body ends with
tileSprite(st, columns, gid) ==
    LET tileFlipX == BitAnd(ToInt32(gid), Mask80000000) # ZeroWord
        tileFlipY == BitAnd(ToInt32(gid), Mask40000000) # ZeroWord
        tmxIndex == ToInteger(BitAnd(ToInt32(gid), Mask0FFFFFFF), 0) - 1
        sx == tmxIndex % columns
        sy == tmxIndex \div columns
    IN  IF tmxIndex < 0 THEN NoSprite
        ELSE IF sx >= st.cols THEN TypeError
        ELSE
          LET sprite == IF sy < st.rows THEN st.grid[<<sx, sy>>] ELSE NoSprite
              spriteX == IF ~tileFlipX THEN sprite
                         ELSE IF sprite = NoSprite THEN TypeError
                         ELSE st.heap[sprite]["flippedX"]
          IN  IF ~tileFlipY \/ spriteX = TypeError THEN spriteX
              ELSE IF spriteX = NoSprite THEN TypeError
              ELSE st.heap[spriteX]["flippedY"]

\* One layer written at layer[x][y] whatever json.flipY is
decodeLayerNoFlip(st, json, columns, size, data) ==
    [c \in (0..(size[1] - 1)) \X (0..(size[2] - 1)) |->
        LET i == c[1] + c[2] * size[1]
        IN  IF i < Len(data) THEN tileSprite(st, columns, data[i + 1])
            ELSE NoSprite]

\* One layer: layer[x][flipY ? size.y - 1 - y : y] for the GID data[i] read
\* in row order, i = x + y * size.x; a GID past the end of the data is
\* undefined, which the bitwise operators read as 0
decodeLayer(st, json, columns, size, data) ==
    [c \in (0..(size[1] - 1)) \X (0..(size[2] - 1)) |->
        LET x == c[1]
            y == IF json.flipY THEN size[2] - 1 - c[2] ELSE c[2]
            i == x + y * size[1]
        IN  IF i < Len(data) THEN tileSprite(st, columns, data[i + 1])
            ELSE NoSprite]

\* The map being built: spriteSize, the name entered in spritesheetTable,
\* the cells of the map array itself (own), the grids of map.layer with, for
\* each, whether it is the map object (isMap) and the columns Object.seal
\* was called on, whether map.layer is sealed, and how the handler ended.
\* The layers a TypeError leaves half built are not represented.
NoMap == [spriteSize |-> <<0, 0>>, table |-> "", own |-> <<>>, layer |-> <<>>,
          isMap |-> <<>>, sealedColumns |-> <<>>,
          sealed |-> FALSE, error |-> ""]

mapThrow(map, error) == [map EXCEPT !.error = error]

\* The handler comparing the widths only of the sheet and the image element
tileDocumentHandlerWidthOnly(st, spritesheetJson, json, doc) ==
    LET map == [NoMap EXCEPT !.spriteSize = <<doc.tilewidth, doc.tileheight>>]
        last == doc.layers[Len(doc.layers)]
        layers == [L \in 1..Len(doc.layers) |->
                      decodeLayer(st, json, doc.columns,
                                  <<last.width, last.height>>,
                                  doc.layers[L].data)]
    IN  IF json.key # "<default>" /\ json.key # doc.name
        THEN mapThrow(map, "NameMismatch")
        ELSE IF <<spritesheetJson.spriteSize.x, spritesheetJson.spriteSize.y>>
                    # map.spriteSize
        THEN mapThrow([map EXCEPT !.table = doc.name], "SpriteSizeMismatch")
        ELSE IF st.size[1] # doc.width
        THEN mapThrow([map EXCEPT !.table = doc.name], "SheetSizeMismatch")
        ELSE IF \E L \in 1..Len(layers) :
                   \E c \in DOMAIN layers[L] : layers[L][c] = TypeError
        THEN mapThrow([map EXCEPT !.table = doc.name], "TypeError")
        ELSE [map EXCEPT !.table = doc.name, !.layer = layers,
                         !.own = layers[1],
                         !.isMap = [L \in 1..Len(layers) |-> L = 1],
                         !.sealedColumns =
                             [L \in 1..Len(layers) |-> 0..(last.width - 1)],
                         !.sealed = TRUE]

\* layerList.map leaves map.size at the size of the last layer
tileDocumentHandler(st, spritesheetJson, json, doc) ==
    LET map == [NoMap EXCEPT !.spriteSize = <<doc.tilewidth, doc.tileheight>>]
        last == doc.layers[Len(doc.layers)]
        layers == [L \in 1..Len(doc.layers) |->
                      decodeLayer(st, json, doc.columns,
                                  <<last.width, last.height>>,
                                  doc.layers[L].data)]
    IN  IF json.key # "<default>" /\ json.key # doc.name
        THEN mapThrow(map, "NameMismatch")
        ELSE IF <<spritesheetJson.spriteSize.x, spritesheetJson.spriteSize.y>>
                    # map.spriteSize
        THEN mapThrow([map EXCEPT !.table = doc.name], "SpriteSizeMismatch")
        ELSE IF st.size # <<doc.width, doc.height>>
        THEN mapThrow([map EXCEPT !.table = doc.name], "SheetSizeMismatch")
        ELSE IF \E L \in 1..Len(layers) :
                   \E c \in DOMAIN layers[L] : layers[L][c] = TypeError
        THEN mapThrow([map EXCEPT !.table = doc.name], "TypeError")
        ELSE [map EXCEPT !.table = doc.name, !.layer = layers,
                         !.own = layers[1],
                         !.isMap = [L \in 1..Len(layers) |-> L = 1],
                         !.sealedColumns =
                             [L \in 1..Len(layers) |-> 0..(last.width - 1)],
                         !.sealed = TRUE]

(***************************************************************************)
(* _parse.  A text is the sequence of its characters, character i of the   *)
(* source being element i + 1; a character outside ASCII is written by its *)
(* code point, "U+03C0".  A value carries its type t: "number" is the      *)
(* rational n / d in lowest terms, "numberTimesPi" is n / d times Math.PI, *)
(* "infinity" has the sign n, "boolean" has n 1 for true, and "NaN",       *)
(* "undefined" and "function" have no content; "string" has the characters *)
(* s, "array" the elements a, "table" the map m from key to value.  The    *)
(* fields a type does not use are empty.  The texts of the model hold no   *)
(* decimal point and no exponent.                                          *)
(***************************************************************************)
Value(t, n, d, s, a, m) == [t |-> t, n |-> n, d |-> d, s |-> s, a |-> a, m |-> m]

Number(n) == Value("number", n, 1, <<>>, <<>>, <<>>)

RECURSIVE GCD(_, _)
GCD(a, b) == IF b = 0 THEN a ELSE GCD(b, a % b)

\* n / d, d positive
Rational(n, d) ==
    LET g == GCD(IF n < 0 THEN -n ELSE n, d)
    IN  Value("number", n \div g, d \div g, <<>>, <<>>, <<>>)

\* x * Math.PI for the number x
TimesPi(x) ==
    IF x.n = 0 THEN x ELSE Value("numberTimesPi", x.n, x.d, <<>>, <<>>, <<>>)

Boolean(b) == Value("boolean", IF b THEN 1 ELSE 0, 1, <<>>, <<>>, <<>>)

undefined == Value("undefined", 0, 1, <<>>, <<>>, <<>>)

Function == Value("function", 0, 1, <<>>, <<>>, <<>>)

Infinity(sign) == Value("infinity", sign, 1, <<>>, <<>>, <<>>)

\* the one character U+2026, the horizontal ellipsis
Ellipsis == "..."

NaN == Value("NaN", 0, 1, <<>>, <<>>, <<>>)

String(chars) == Value("string", 0, 1, chars, <<>>, <<>>)

Array(elements) == Value("array", 0, 1, <<>>, elements, <<>>)

Table(entries) == Value("table", 0, 1, <<>>, <<>>, entries)

Returned(result, next) == [threw |-> FALSE, result |-> result, next |-> next]

\* throw new Error('hit the end of ' + source)
HitTheEnd == [threw |-> TRUE, result |-> NaN, next |-> 0]

\* source[i], undefined past the end
CharAt(source, i) == IF i < Len(source) THEN source[i + 1] ELSE "undefined"

Substring(source, begin, end) ==
    [k \in 1..(end - begin) |-> source[begin + k]]

\* while (chars.indexOf(source[i]) !== -1) { ++i; }
RECURSIVE consume(_, _, _)
consume(source, chars, i) ==
    IF CharAt(source, i) \in chars THEN consume(source, chars, i + 1) ELSE i

\* while (i < source.length && source[i] !== close) { ++i; }
RECURSIVE scanTo(_, _, _)
scanTo(source, close, i) ==
    IF i < Len(source) /\ source[i + 1] # close
    THEN scanTo(source, close, i + 1) ELSE i

RECURSIVE regexIndexOf(_, _, _)
regexIndexOf(text, re, i) ==
    IF i >= Len(text) THEN Len(text)
    ELSE IF text[i + 1] \in re THEN i
    ELSE regexIndexOf(text, re, i + 1)

Digits == <<"0", "1", "2", "3", "4", "5", "6", "7", "8", "9">>

IsDigit(c) == \E d \in 1..10 : Digits[d] = c

DigitValue(c) == (CHOOSE d \in 1..10 : Digits[d] = c) - 1

\* parseFloat of a token without point or exponent: an optional sign and
\* the number the digits after it write, NaN when there is no digit there
RECURSIVE leadingDigits(_, _, _)
leadingDigits(token, k, n) ==
    IF k <= Len(token) /\ IsDigit(token[k])
    THEN leadingDigits(token, k + 1, 10 * n + DigitValue(token[k]))
    ELSE n

parseFloat(token) ==
    LET signed == Len(token) >= 1 /\ token[1] \in {"+", "-"}
        first == IF signed THEN 2 ELSE 1
    IN  IF Len(token) >= first /\ IsDigit(token[first])
        THEN Number((IF signed /\ token[1] = "-" THEN -1 ELSE 1)
                        * leadingDigits(token, first, 0))
        ELSE NaN

\* case '"'
RECURSIVE scanString(_, _)
scanString(source, i) ==
    IF i < Len(source) /\ (source[i + 1] # "\"" \/ CharAt(source, i - 1) = "\\")
    THEN scanString(source, i + 1) ELSE i

quotedString(source, i) ==
    LET begin == i + 1
        end == scanString(source, begin)
    IN  Returned(String(Substring(source, begin, end)), end + 1)

\* String.prototype.toLowerCase on the letters of the model
UpperCase == <<"A", "B", "C", "D", "E", "F", "G", "I", "L", "N", "O", "R", "S",
               "T", "U", "Y", "U+03A0">>

LowerCase == <<"a", "b", "c", "d", "e", "f", "g", "i", "l", "n", "o", "r", "s",
               "t", "u", "y", "U+03C0">>

toLowerCase(token) ==
    [k \in 1..Len(token) |->
        IF \E j \in 1..Len(UpperCase) : UpperCase[j] = token[k]
        THEN LowerCase[CHOOSE j \in 1..Len(UpperCase) : UpperCase[j] = token[k]]
        ELSE token[k]]

\* Math.pi: Math has no property of that name
MathPi == undefined

\* -x for the values the table negates
Negate(x) ==
    IF x.t = "number" THEN Rational(-x.n, x.d)
    ELSE IF x.t = "infinity" THEN Infinity(-x.n)
    ELSE NaN

\* the fraction glyphs of lines 1022-1039: U+00BC is 1/4, ...
FractionGlyphs ==
    <<<<"U+00BC", 1, 4>>, <<"U+00BD", 1, 2>>, <<"U+00BE", 3, 4>>,
      <<"U+2153", 1, 3>>, <<"U+2154", 2, 3>>, <<"U+2155", 1, 5>>,
      <<"U+2156", 2, 5>>, <<"U+2157", 3, 5>>, <<"U+2158", 4, 5>>,
      <<"U+2159", 1, 6>>, <<"U+215A", 5, 6>>, <<"U+2150", 1, 7>>,
      <<"U+215B", 1, 8>>, <<"U+215C", 3, 8>>, <<"U+215D", 5, 8>>,
      <<"U+215E", 7, 8>>, <<"U+2151", 1, 9>>, <<"U+2152", 1, 10>>>>

IsFraction(token) ==
    \E j \in 1..Len(FractionGlyphs) : token = <<FractionGlyphs[j][1]>>

FractionOf(token) ==
    LET f == FractionGlyphs[CHOOSE j \in 1..Len(FractionGlyphs) :
                               token = <<FractionGlyphs[j][1]>>]
    IN  Rational(f[2], f[3])

EndsWith(token, suffix) ==
    /\ Len(token) >= Len(suffix)
    /\ \A k \in 1..Len(suffix) :
          token[Len(token) - Len(suffix) + k] = suffix[k]

\* switch (token), lines 1012-1066
tokenValue(token) ==
    CASE token = <<"t", "r", "u", "e">> -> Boolean(TRUE)
      [] token = <<"f", "a", "l", "s", "e">> -> Boolean(FALSE)
      [] token \in {<<"n", "i", "l">>, <<"U+2205">>,
                    <<"b", "u", "i", "l", "t", "i", "n">>} -> undefined
      [] token = <<"f", "u", "n", "c", "t", "i", "o", "n">> -> Function
      [] token \in {<<"i", "n", "f", "i", "n", "i", "t", "y">>, <<"U+221E">>,
                    <<"+", "i", "n", "f", "i", "n", "i", "t", "y">>,
                    <<"+", "U+221E">>} -> Infinity(1)
      [] token \in {<<"-", "i", "n", "f", "i", "n", "i", "t", "y">>,
                    <<"-", "U+221E">>} -> Infinity(-1)
      [] token = <<"n", "a", "n">> -> NaN
      [] token = <<"U+03C0">> -> MathPi
      [] token = <<"-", "U+03C0">> -> Negate(MathPi)
      [] IsFraction(token) -> FractionOf(token)
      [] Len(token) = 2 /\ token[1] = "-" /\ IsFraction(Tail(token)) ->
            Negate(FractionOf(Tail(token)))
      [] OTHER ->
            LET x == parseFloat(token)
            IN  IF EndsWith(token, <<"d", "e", "g">>)
                     \/ EndsWith(token, <<"U+00B0">>)
                THEN IF x.t = "NaN" THEN NaN ELSE TimesPi(Rational(x.n, 180))
                ELSE IF EndsWith(token, <<"%">>)
                THEN IF x.t = "NaN" THEN NaN ELSE Rational(x.n, 100)
                ELSE x

\* The default case with an error for the empty token
constantNotEmpty(source, i) ==
    LET end == regexIndexOf(source, {",", ":", "[", "{", "}", "]", " ", "\n", "\t", "\""}, i)
        token == toLowerCase(Substring(source, i, end))
    IN  IF end = i THEN HitTheEnd
        ELSE Returned(tokenValue(token), end + 1)

\* default: a constant
constant(source, i) ==
    LET end == regexIndexOf(source, {",", ":", "[", "{", "}", "]", " ", "\n", "\t", "\""}, i)
        token == toLowerCase(Substring(source, i, end))
    IN  Returned(tokenValue(token), end + 1)

RECURSIVE _parse(_, _)
RECURSIVE arrayElements(_, _, _)
RECURSIVE tableEntries(_, _, _)

\* The loop of case '[': a holds the elements read, i is at the next one
arrayElements(source, a, i) ==
    IF i < Len(source) /\ source[i + 1] # "]"
    THEN LET child == _parse(source, i)
         IN  IF child.threw THEN child
             ELSE IF child.result.t = "string" /\ child.result.s = <<Ellipsis>>
             THEN Returned(Array(<<>>), scanTo(source, "]", i) + 1)
             ELSE arrayElements(source, Append(a, child.result),
                                consume(source, {",", " ", "\t", "\n"}, child.next))
    ELSE Returned(Array(a), i + 1)

\* The loop of case '{': t holds the entries read, i is at the next key
tableEntries(source, t, i) ==
    IF i < Len(source) /\ source[i + 1] # "}"
    THEN LET quoted == source[i + 1] = "\""
             temp == quotedString(source, i)
             end == regexIndexOf(source, {":", " ", "\n", "\t", "\""}, i)
             key == IF quoted THEN temp.result.s ELSE Substring(source, i, end)
             afterKey == IF quoted THEN temp.next ELSE end
         IN  IF key = <<Ellipsis>>
             THEN Returned(Table(<<>>), scanTo(source, "}", afterKey) + 1)
             ELSE LET value == _parse(source,
                                      consume(source, {":", " ", "\t", "\n"}, afterKey))
                  IN  IF value.threw THEN value
                      ELSE tableEntries(
                              source,
                              [k \in (DOMAIN t) \cup {key} |->
                                  IF k = key THEN value.result ELSE t[k]],
                              consume(source, {",", " ", "\t", "\n"}, value.next))
    ELSE Returned(Table(t), i + 1)

\* _parse returning undefined at the offset it has reached when the text
\* runs out, in place of the throw after the loop
_parseToTheEnd(source, i) ==
    IF i >= Len(source) THEN Returned(undefined, i)
    ELSE CASE source[i + 1] \in {" ", "\t", "\n"} -> _parse(source, i + 1)
           [] source[i + 1] = "\"" -> quotedString(source, i)
           [] source[i + 1] = "[" ->
                arrayElements(source, <<>>,
                              consume(source, {" ", "\t", "\n"}, i + 1))
           [] source[i + 1] = "{" ->
                tableEntries(source, <<>>,
                             consume(source, {" ", "\t", "\n"}, i + 1))
           [] OTHER -> constant(source, i)

_parse(source, i) ==
    IF i >= Len(source) THEN HitTheEnd
    ELSE CASE source[i + 1] \in {" ", "\t", "\n"} -> _parse(source, i + 1)
           [] source[i + 1] = "\"" -> quotedString(source, i)
           [] source[i + 1] = "[" ->
                arrayElements(source, <<>>,
                              consume(source, {" ", "\t", "\n"}, i + 1))
           [] source[i + 1] = "{" ->
                tableEntries(source, <<>>,
                             consume(source, {" ", "\t", "\n"}, i + 1))
           [] OTHER -> constant(source, i)

(***************************************************************************)
(* evalJSONGameConstant.  A definition is its type, whether it has a url,  *)
(* and json.value by its JavaScript type: kind is "undefined", "null",     *)
(* "true", "false", "number" (num), "string" (text), "hexString" (a string *)
(* that starts with #, hex being the digits after it) or "object" (fields, *)
(* the definitions under its properties x y z or r g b a, by position).    *)
(* The outcome is the value returned or the error thrown, with the number  *)
(* of console.error calls made on the way to the throw.                    *)
(***************************************************************************)
Definition(type, hasUrl, kind, num, text, hex, fields) ==
    [type |-> type, hasUrl |-> hasUrl, kind |-> kind, num |-> num,
     text |-> text, hex |-> hex, fields |-> fields]

Evaluated(value) ==
    [threw |-> FALSE, error |-> "", logged |-> 0, value |-> value]

Thrown(error, logged) ==
    [threw |-> TRUE, error |-> error, logged |-> logged, value |-> undefined]

Null == Value("null", 0, 1, <<>>, <<>>, <<>>)

\* a plain object, its property values by position
PlainObject(values) == Value("object", 0, 1, <<>>, values, <<>>)

HexChars == <<"0", "1", "2", "3", "4", "5", "6", "7", "8", "9",
              "A", "B", "C", "D", "E", "F">>

\* the characters of json.value when it is a string
StringOf(json) ==
    IF json.kind = "hexString"
    THEN <<"#">> \o [k \in 1..Len(json.hex) |-> HexChars[json.hex[k] + 1]]
    ELSE json.text

\* json.value as it stands in the definition
RECURSIVE JSValue(_)
JSValue(json) ==
    CASE json.kind = "undefined" -> undefined
      [] json.kind = "null" -> Null
      [] json.kind = "true" -> Boolean(TRUE)
      [] json.kind = "false" -> Boolean(FALSE)
      [] json.kind = "number" -> Number(json.num)
      [] json.kind \in {"string", "hexString"} -> String(StringOf(json))
      [] json.kind = "object" ->
            PlainObject([k \in 1..Len(json.fields) |-> JSValue(json.fields[k])])

RECURSIVE nullToUndefined(_)
nullToUndefined(x) ==
    IF x.t = "null" THEN undefined
    ELSE IF x.t \in {"array", "object"}
    THEN [x EXCEPT !.a = [k \in 1..Len(x.a) |-> nullToUndefined(x.a[k])]]
    ELSE x

\* String.prototype.trim
RECURSIVE trimStart(_)
trimStart(text) ==
    IF Len(text) > 0 /\ Head(text) \in {" ", "\t", "\n"} THEN trimStart(Tail(text))
    ELSE text

RECURSIVE trimEnd(_)
trimEnd(text) ==
    IF Len(text) > 0 /\ text[Len(text)] \in {" ", "\t", "\n"}
    THEN trimEnd(SubSeq(text, 1, Len(text) - 1))
    ELSE text

trim(text) == trimEnd(trimStart(text))

\* {r: c.r, g: c.g, b: c.b} or the whole colour of parseHexColor
ColourTable(c, names) ==
    [key \in {<<names[k]>> : k \in 1..Len(names)} |->
        LET channel == CASE key = <<"r">> -> c.r
                         [] key = <<"g">> -> c.g
                         [] key = <<"b">> -> c.b
                         [] OTHER -> c.a
        IN  Rational(channel.n, channel.d)]

RECURSIVE evalJSONGameConstant(_)
RECURSIVE evalProperties(_, _, _, _)

\* {x: evalJSONGameConstant(json.value.x), ...}: the properties in the order
\* written; reading a property of null or undefined, and json.type of a
\* property that is not there, is a TypeError
evalProperties(json, names, k, object) ==
    IF k > Len(names) THEN Evaluated(Table(object))
    ELSE IF json.kind # "object" \/ k > Len(json.fields)
    THEN Thrown("TypeError", 0)
    ELSE LET r == evalJSONGameConstant(json.fields[k])
         IN  IF r.threw THEN r
             ELSE evalProperties(
                     json, names, k + 1,
                     [key \in (DOMAIN object) \cup {<<names[k]>>} |->
                         IF key = <<names[k]>> THEN r.value ELSE object[key]])

evalJSONGameConstant(json) ==
    CASE json.type = "nil" -> Evaluated(undefined)
      [] json.type = "raw" ->
            IF json.hasUrl THEN Thrown("RawWithURL", 0)
            ELSE Evaluated(nullToUndefined(JSValue(json)))
      [] json.type = "number" ->
            IF json.kind = "number" THEN Evaluated(Number(json.num))
            ELSE IF json.kind \in {"string", "hexString"}
            THEN LET r == _parse(trim(StringOf(json)), 0)
                 IN  IF r.threw THEN Thrown("HitTheEnd", 0)
                     ELSE Evaluated(r.result)
            ELSE Thrown("TypeError", 0)
      [] json.type = "boolean" ->
            Evaluated(Boolean(json.kind = "true"
                                \/ (json.kind = "string"
                                      /\ json.text = <<"t", "r", "u", "e">>)))
      [] json.type = "string" -> Evaluated(JSValue(json))
      [] json.type = "xy" -> evalProperties(json, <<"x", "y">>, 1, <<>>)
      [] json.type = "xyz" -> evalProperties(json, <<"x", "y", "z">>, 1, <<>>)
      [] json.type \in {"rgb", "rgba"} ->
            LET names == IF json.type = "rgb" THEN <<"r", "g", "b">>
                         ELSE <<"r", "g", "b", "a">>
            IN  IF json.kind = "null" THEN Thrown("TypeError", 0)
                ELSE IF json.kind = "object"
                THEN evalProperties(json, names, 1, <<>>)
                ELSE IF json.kind = "hexString"
                THEN LET c == parseHexColor(json.hex)
                     IN  IF c.status = "throw" THEN Thrown("IllegalHexColor", 0)
                         ELSE Evaluated(Table(ColourTable(c, names)))
                ELSE Thrown("IllegalColorValue", 0)
      \* console.error('Not implemented') in each case fallen through, then
      \* the throw of the default case
      [] json.type = "grid" -> Thrown("UnrecognizedDataType", 3)
      [] json.type = "object" -> Thrown("UnrecognizedDataType", 2)
      [] json.type = "array" -> Thrown("UnrecognizedDataType", 1)
      [] OTHER -> Thrown("UnrecognizedDataType", 0)

(***************************************************************************)
(* URLs.  A URL is the sequence of its dot- and slash-separated segments;  *)
(* an absolute URL starts with its protocol and directory.                 *)
(***************************************************************************)
Root == "http://host/game/"

urlDir(url) == <<Head(url)>>

makeURLAbsolute(parentURL, childURL) ==
    IF Len(childURL) > 0 /\ Head(childURL) = Root THEN childURL
    ELSE urlDir(parentURL) \o childURL

gameURL == <<Root, "game", "json">>

logoURL == <<"startup-logo", "png">>

NoURL == <<>>

\* /\.([^.]+)\.json$/i on a descriptor URL, lower-cased: the segment before
\* the final "json", or "null" when the URL does not end that way
assetTypeOf(url) ==
    IF Len(url) >= 3 /\ url[Len(url)] = "json" THEN url[Len(url) - 1] ELSE "null"

(***************************************************************************)
(* What the server holds: asset descriptors, and for the files they name   *)
(* the properties the decoders branch on.                                  *)
(***************************************************************************)
JSON(url, spriteUrl, names) ==
    [url |-> url, spriteUrl |-> spriteUrl, names |-> names, license |-> <<>>]

Licensed(json, license) == [json EXCEPT !.license = license]

NoJSON == JSON(NoURL, NoURL, "none")

aSprite == <<"a", "sprite", "json">>
bSprite == <<"b", "sprite", "json">>
cSprite == <<"c", "sprite", "json">>
dSprite == <<"d", "sprite", "json">>
mMap == <<"m", "map", "json">>
nMap == <<"n", "map", "json">>
kMap == <<"k", "map", "json">>
sSound == <<"s", "sound", "json">>
tSound == <<"t", "sound", "json">>
fFont == <<"f", "font", "json">>
xData == <<"x", "data", "json">>

Descriptors == {aSprite, bSprite, cSprite, dSprite, mMap, nMap, kMap, sSound, tSound, fFont, xData}

\* names: "none" (no names table), "ok" (well-formed ranges inside the grid),
\* "diagonal" (a range whose start and end differ in both axes)
ServerJSON(url) ==
    CASE url = <<Root>> \o aSprite ->
            Licensed(JSON(<<"sheet", "png">>, NoURL, "ok"), <<"C", "C", "0">>)
      [] url = <<Root>> \o bSprite -> JSON(<<"sheet", "png">>, NoURL, "diagonal")
      [] url = <<Root>> \o cSprite ->
            Licensed(JSON(<<"sheet", "png">>, NoURL, "ok"), <<"C", "C", "0">>)
      [] url = <<Root>> \o dSprite ->
            Licensed(JSON(<<"sheet", "png">>, NoURL, "none"),
                     <<"(", "C", ")", " ", "2", " ", "Z">>)
      [] url = <<Root>> \o mMap ->
            Licensed(JSON(<<"m", "tmx">>, aSprite, "none"), <<"C", "C", "0">>)
      [] url = <<Root>> \o nMap -> JSON(<<"n", "tmx">>, NoURL, "none")
      [] url = <<Root>> \o kMap -> JSON(<<"k", "tmx">>, aSprite, "none")
      [] url = <<Root>> \o sSound ->
            Licensed(JSON(<<"s", "mp3">>, NoURL, "none"), <<"C", "C", "0">>)
      [] url = <<Root>> \o tSound -> JSON(<<"t", "mp3">>, NoURL, "none")
      [] url = <<Root>> \o fFont ->
            Licensed(JSON(<<"f", "png">>, NoURL, "none"), <<"B", "y", " ", "Y">>)
      [] url = <<Root>> \o xData -> JSON(<<"x", "bin">>, NoURL, "none")
      [] OTHER -> NoJSON

\* whether the tile document's tileset and image elements state the cell
\* size and pixel size of the sheet the map names
TileDocumentMatchesSheet(url) == url # <<Root, "k", "tmx">>

(***************************************************************************)
(* computeAssetCredits.  A licence is the sequence of its characters; a    *)
(* credit line is the list of asset names it joins and the licence that    *)
(* follows them; the cache of a type is its Map, entries in insertion      *)
(* order.  A map's spritesheetTable holds its sheet once the tile document *)
(* handler has run.                                                        *)
(***************************************************************************)
RECURSIVE skipSpaces(_, _)
skipSpaces(text, i) ==
    IF i <= Len(text) /\ text[i] \in {" ", "\t", "\n"} THEN skipSpaces(text, i + 1)
    ELSE i

\* (c), copyright and the sign itself, each letter in either case
CopyrightWords ==
    {<<{"("}, {"c", "C"}, {")"}>>,
     <<{"c", "C"}, {"o", "O"}, {"p", "P"}, {"y", "Y"}, {"r", "R"}, {"i", "I"},
       {"g", "G"}, {"h", "H"}, {"t", "T"}>>,
     <<{"U+00A9"}>>}

\* where a match of /(?:\(c\)|copyright|U+00A9)\s*(?=\d)/i that starts at i
\* ends, or 0 when there is none
copyrightMatch(text, i) ==
    LET words == {w \in CopyrightWords :
                    /\ i + Len(w) - 1 <= Len(text)
                    /\ \A k \in 1..Len(w) : text[i + k - 1] \in w[k]}
    IN  IF words = {} THEN 0
        ELSE LET word == CHOOSE w \in words : TRUE
                 next == skipSpaces(text, i + Len(word))
             IN  IF next <= Len(text) /\ text[next] \in {"0", "1", "2", "3", "4",
                                                         "5", "6", "7", "8", "9"}
                 THEN next ELSE 0

RECURSIVE replaceCopyright(_, _)

\* the text from i on, given where the match that starts at i ends
replaceMatch(text, i, next) ==
    IF next > 0 THEN <<"U+00A9">> \o replaceCopyright(text, next)
    ELSE <<text[i]>> \o replaceCopyright(text, i + 1)

replaceCopyright(text, i) ==
    IF i > Len(text) THEN <<>>
    ELSE replaceMatch(text, i, copyrightMatch(text, i))

\* license.replace(/^By /, 'by')
lowerCaseBy(l) ==
    IF Len(l) >= 3 /\ SubSeq(l, 1, 3) = <<"B", "y", " ">>
    THEN <<"b", "y">> \o SubSeq(l, 4, Len(l))
    ELSE l

canonicalizeLicense(license) == lowerCaseBy(replaceCopyright(license, 1))

\* urlFile(assetURL).replace(/\.[^\.]+\.json$/, '')
creditName(assetURL) ==
    IF Len(assetURL) >= 3 /\ assetURL[Len(assetURL)] = "json"
    THEN SubSeq(assetURL, 2, Len(assetURL) - 2)
    ELSE Tail(assetURL)

CreditedTypes == {"game", "pack", "font", "sprite", "sound", "code"}

NoCredits == [type \in CreditedTypes |-> <<>>]

\* cache[type].get(license).push(name), on a Map that has the licence
pushCredit(entries, name, license) ==
    [k \in 1..Len(entries) |->
        IF entries[k].license = license
        THEN [entries[k] EXCEPT !.assetList = Append(@, name)]
        ELSE entries[k]]

\* the Map with the licence set to [] when it does not have it
setLicense(entries, license) ==
    IF \E k \in 1..Len(entries) : entries[k].license = license THEN entries
    ELSE Append(entries, [license |-> license, assetList |-> <<>>])

addCanonical(cache, type, name, license) ==
    [cache EXCEPT ![type] = pushCredit(setLicense(@, license), name, license)]

addCredit(cache, type, assetURL, license) ==
    addCanonical(cache, type, creditName(assetURL), canonicalizeLicense(license))

\* the credit of the asset itself
creditAsset(cache, jsonURL, json, type) ==
    IF json.license # <<>> /\ type \in CreditedTypes
    THEN addCredit(cache, type, jsonURL, json.license)
    ELSE cache

\* the credit of the sheet in a map's spritesheetTable
creditSheet(cache, inTable, spritesheetURL, json) ==
    IF inTable /\ json.license # <<>>
    THEN addCredit(cache, "sprite", spritesheetURL, json.license)
    ELSE cache

\* the body of the loop over gameSource.assets
creditOne(s, asset, json, type, cache) ==
    creditSheet(creditAsset(cache, asset.jsonURL, json, type),
                type = "map" /\ asset.name \in s.decoded,
                makeURLAbsolute(asset.jsonURL, json.spriteUrl),
                ServerJSON(makeURLAbsolute(asset.jsonURL, json.spriteUrl)))

RECURSIVE creditAssets(_, _, _, _)
creditAssets(s, order, i, cache) ==
    IF i > Len(order) THEN cache
    ELSE creditAssets(s, order, i + 1,
                      creditOne(s, order[i], ServerJSON(order[i].jsonURL),
                                assetTypeOf(order[i].jsonURL), cache))

\* the lines of each type in the order of its cache (the lines of the game
\* and of the runtime's code, which no asset changes, are left out)
creditLines(cache) ==
    [type \in CreditedTypes |->
        [k \in 1..Len(cache[type]) |->
            [assets |-> cache[type][k].assetList,
             license |-> cache[type][k].license]]]

\* the credits of the assets in the order given
creditsInOrder(s, order) == creditLines(creditAssets(s, order, 1, NoCredits))

computeAssetCredits(s) ==
    [s EXCEPT !.assetCredits = creditsInOrder(s, s.assetList)]

(***************************************************************************)
(* The state of one load: the LoadManager allocated by afterLoadGame, the  *)
(* globals gameSource, fileContents and resourceStats, and what the caller *)
(* has seen of its two callbacks.                                          *)
(***************************************************************************)
\* status, pendingRequests, resource: the LoadManager; fetched: the
\* underlying fetches it issued, by URL; decoding: the sounds decodeAudioData
\* is working on; fields .. assetTable: gameSource (fields: which of its
\* properties are set); decoded: the assets and sheets whose handler ran to
\* its end; threw: an exception is propagating; errors: the errors thrown;
\* requested, ran: the handlers registered with fetch and those run, by URL;
\* audioFailed: the sounds whose decoding reported a failure.
NoLoad ==
    [status |-> "none", pendingRequests |-> 0, resource |-> <<>>,
     fetched |-> <<>>, decoding |-> {}, audioFailed |-> {},
     requested |-> {}, ran |-> {},
     fields |-> {}, scripts |-> <<>>, modes |-> <<>>, numStartModes |-> 0,
     constants |-> {}, assetTable |-> <<>>, assetList |-> <<>>,
     assetCredits |-> NoCredits, decoded |-> {},
     fileContents |-> {}, spritesheets |-> 0, sounds |-> 0,
     spritePixels |-> 0, maxSpritesheetWidth |-> 0,
     maxSpritesheetHeight |-> 0,
     successCalls |-> 0, failureCalls |-> 0,
     threw |-> FALSE, errors |-> {}, log |-> {}]

\* a completion handler with the values its closure captured
Callback(h, name, url, json, mapJSON) ==
    [h |-> h, name |-> name, url |-> url, json |-> json, mapJSON |-> mapJSON]

throw(s, error) == [s EXCEPT !.threw = TRUE, !.errors = @ \cup {error}]

\* f with key k set to v (k added to the keys when it is new)
Put(f, k, v) == [x \in (DOMAIN f) \cup {k} |-> IF x = k THEN v ELSE f[x]]

(***************************************************************************)
(* The fetch scheduler, LoadManager: one counter of outstanding requests,  *)
(* one underlying fetch per URL, one terminal callback.                    *)
(***************************************************************************)
RECURSIVE RunHandler(_, _, _)

\* the callback handed to the LoadManager's constructor, lines 98-101
onLoadManagerComplete(s) ==
    [computeAssetCredits(s) EXCEPT !.successCalls = @ + 1]

onLoadManagerError(s) == [s EXCEPT !.failureCalls = @ + 1]

NewLoadManager(s) ==
    [s EXCEPT !.status = "accepting requests", !.pendingRequests = 0,
              !.resource = <<>>, !.fetched = <<>>,
              !.requested = {}, !.ran = {}]

markRequestCompleted(s, success) ==
    LET s1 == [s EXCEPT !.pendingRequests = @ - 1]
    IN  IF s1.status \in {"complete", "failure"} THEN s1
        ELSE IF ~success
             THEN onLoadManagerError([s1 EXCEPT !.status = "failure"])
        ELSE IF s1.pendingRequests = 0 /\ s1.status = "loading"
             THEN onLoadManagerComplete([s1 EXCEPT !.status = "complete"])
        ELSE s1

Request(url, callback) == [url |-> url, h |-> callback.h, name |-> callback.name]

\* the callback is invoked with the payload of url
Invoke(s, callback, url) ==
    RunHandler([s EXCEPT !.ran = @ \cup {Request(url, callback)}], callback, url)

\* nothing runs after a throw: the statements that follow it are skipped
LoadManagerFetch(s, url, callback) ==
    IF s.threw \/ s.status = "failure" THEN s
    ELSE LET s1 == [s EXCEPT !.requested = @ \cup {Request(url, callback)}]
         IN  IF url \notin DOMAIN s1.resource
             THEN [s1 EXCEPT !.pendingRequests = @ + 1,
                             !.fetched = Put(@, url, 1),
                             !.resource = Put(@, url, [st |-> "loading",
                                                       cbs |-> <<callback>>])]
             ELSE IF s1.resource[url].st = "loading"
             THEN [s1 EXCEPT !.resource[url].cbs = Append(@, callback)]
             ELSE IF s1.resource[url].st = "success"
             THEN Invoke(s1, callback, url)
             ELSE s1

LoadManagerEnd(s) ==
    IF s.status = "failure" THEN s
    ELSE IF s.pendingRequests = 0
    THEN onLoadManagerComplete([s EXCEPT !.status = "complete"])
    ELSE [s EXCEPT !.status = "loading"]

RECURSIVE RunCallbacks(_, _, _, _)
RunCallbacks(s, url, cbs, i) ==
    IF i > Len(cbs) \/ s.threw THEN s
    ELSE RunCallbacks(Invoke(s, cbs[i], url), url, cbs, i + 1)

\* the underlying fetch of url settles
LoadManagerSettle(s, url, success) ==
    IF s.status = "failure"
    THEN [s EXCEPT !.resource[url].st = IF success THEN "success" ELSE "failure",
                   !.pendingRequests = @ - 1]
    ELSE IF ~success
    THEN markRequestCompleted([s EXCEPT !.resource[url].st = "failure"], FALSE)
    ELSE LET s1 == RunCallbacks([s EXCEPT !.resource[url].st = "success"],
                                url, s.resource[url].cbs, 1)
         IN  IF s1.threw
             THEN markRequestCompleted([s1 EXCEPT !.threw = FALSE], FALSE)
             ELSE markRequestCompleted(s1, TRUE)

(***************************************************************************)
(* loadFont, loadSpritesheet, loadSound, loadMap and the completion        *)
(* handlers they register.                                                 *)
(***************************************************************************)
Err(error, name) == [error |-> error, name |-> name]

Asset(kind) == [kind |-> kind]

loadFont(s, name, json, jsonURL) ==
    LoadManagerFetch(s, json.url, Callback("fontImage", name, jsonURL, json, NoJSON))

\* the pixels of the image at url, as getImageData4BitAndFlip returns them
ImageData(url) ==
    IF url = logoURL THEN [width |-> 3, height |-> 1]
    ELSE [width |-> 2, height |-> 2]

\* font._data as packFont leaves it
FontData(url) == [width |-> 1, height |-> 4]

Max(a, b) == IF a >= b THEN a ELSE b

\* lines 496-499 and 411-414
addToResourceStats(s, data) ==
    [s EXCEPT !.spritePixels = @ + data.width * data.height,
              !.spritesheets = @ + 1,
              !.maxSpritesheetWidth = Max(@, data.width),
              !.maxSpritesheetHeight = Max(@, data.height)]

onFontImage(s, cb, url) ==
    [addToResourceStats([s EXCEPT !.fileContents = @ \cup {url}], FontData(url))
        EXCEPT !.decoded = @ \cup {cb.name}]

\* The statistics without the test of fileContents
recordSheetImageAgain(s, url) ==
    addToResourceStats([s EXCEPT !.fileContents = @ \cup {url}], ImageData(url))

\* if (! (url in fileContents)) { ... }, lines 493-500
recordSheetImage(s, url) ==
    IF url \notin s.fileContents
    THEN addToResourceStats([s EXCEPT !.fileContents = @ \cup {url}],
                            ImageData(url))
    ELSE s

loadSpritesheet(s, name, json, jsonURL, mapJSON) ==
    LoadManagerFetch(s, json.url, Callback("sheetImage", name, jsonURL, json, mapJSON))

\* the callback loadMap hands to loadSpritesheet, lines 706-707
onMapSpritesheet(s, cb) ==
    LoadManagerFetch(s, makeURLAbsolute(cb.url, cb.mapJSON.url),
                     Callback("tileDocument", cb.name, cb.url, cb.json, cb.mapJSON))

\* the handler that never calls the callback loadSpritesheet was given
onSheetImageNoCallback(s, cb, url) ==
    LET s1 == recordSheetImage(s, url)
    IN  IF cb.json.names = "diagonal"
        THEN throw(s1, Err("AnimationRange", cb.name))
        ELSE [s1 EXCEPT !.decoded = @ \cup {cb.name}]

onSheetImage(s, cb, url) ==
    LET s1 == recordSheetImage(s, url)
    IN  IF cb.json.names = "diagonal"
        THEN throw(s1, Err("AnimationRange", cb.name))
        ELSE IF cb.mapJSON = NoJSON
        THEN [s1 EXCEPT !.decoded = @ \cup {cb.name}]
        ELSE onMapSpritesheet(s1, cb)

loadSound(s, name, json, jsonURL) ==
    LoadManagerFetch([s EXCEPT !.sounds = @ + 1,
                               !.fileContents = @ \cup {json.url}],
                     json.url, Callback("soundBuffer", name, jsonURL, json, NoJSON))

\* whether decodeAudioData throws at the call instead of calling back: it
\* does for the buffer of t.mp3
decodeAudioDataThrows(url) == url[Len(url) - 1] = "t"

\* The handler without ++loadManager.pendingRequests
onSoundBufferNoIncrement(s, cb, url) ==
    IF decodeAudioDataThrows(url)
    THEN markRequestCompleted([s EXCEPT !.audioFailed = @ \cup {cb.name}], FALSE)
    ELSE [s EXCEPT !.decoding = @ \cup {cb.name}]

onSoundBuffer(s, cb, url) ==
    LET s1 == [s EXCEPT !.pendingRequests = @ + 1]
    IN  IF decodeAudioDataThrows(url)
        THEN markRequestCompleted([s1 EXCEPT !.audioFailed = @ \cup {cb.name}],
                                  FALSE)
        ELSE [s1 EXCEPT !.decoding = @ \cup {cb.name}]

\* decodeAudioData's onSuccess, lines 651-662
onAudioDecoded(s, name) ==
    markRequestCompleted([s EXCEPT !.decoding = @ \ {name},
                                   !.decoded = @ \cup {name}], TRUE)

\* an onFailure that reports nothing to the LoadManager
onAudioFailureUnreported(s, name) ==
    [s EXCEPT !.decoding = @ \ {name}, !.audioFailed = @ \cup {name}]

\* decodeAudioData's onFailure, lines 663-665
onAudioFailure(s, name) ==
    markRequestCompleted([s EXCEPT !.decoding = @ \ {name},
                                   !.audioFailed = @ \cup {name}], FALSE)

loadMap(s, name, json, mapJSONUrl) ==
    IF json.spriteUrl = NoURL
    THEN throw(s, Err("NoSpriteUrlTable", name))
    ELSE LoadManagerFetch(s, makeURLAbsolute(mapJSONUrl, json.spriteUrl),
                          Callback("mapSheetJSON", name, mapJSONUrl, NoJSON, json))

\* the sheet descriptor's url used as it stands in the file
onMapSheetJSONRelative(s, cb, url) ==
    loadSpritesheet(s, cb.name, ServerJSON(url), cb.url, cb.mapJSON)

onMapSheetJSON(s, cb, url) ==
    LET spritesheetJson == [ServerJSON(url) EXCEPT !.url = makeURLAbsolute(url, @)]
    IN  loadSpritesheet(s, cb.name, spritesheetJson, cb.url, cb.mapJSON)

onTileDocument(s, cb, url) ==
    IF ~TileDocumentMatchesSheet(url)
    THEN throw(s, Err("SheetMismatch", cb.name))
    ELSE [s EXCEPT !.decoded = @ \cup {cb.name}]

(***************************************************************************)
(* The completion handler of the manifest fetch, lines 135-294.            *)
(***************************************************************************)
allowedScreenSizes ==
    <<[x |-> 384, y |-> 224], [x |-> 192, y |-> 112],
      [x |-> 128, y |-> 128], [x |-> 64, y |-> 64]>>

defaultScreenSize(json) ==
    IF json.screenSize.defined THEN json
    ELSE [json EXCEPT !.screenSize = [defined |-> TRUE, x |-> 384, y |-> 224]]

\* the test that compares the widths only
checkScreenSizeWidthOnly(s, json) ==
    LET ok == \E i \in 1..Len(allowedScreenSizes) :
                  allowedScreenSizes[i].x = json.screenSize.x
    IN  IF ok THEN s ELSE throw(s, Err("UnsupportedScreenSize", ""))

checkScreenSize(s, json) ==
    LET ok == \E i \in 1..Len(allowedScreenSizes) :
                  /\ allowedScreenSizes[i].x = json.screenSize.x
                  /\ allowedScreenSizes[i].y = json.screenSize.y
    IN  IF ok THEN s ELSE throw(s, Err("UnsupportedScreenSize", ""))

onScriptText(s, cb, url) == [s EXCEPT !.fileContents = @ \cup {url}]

RECURSIVE fetchScripts(_, _, _)
fetchScripts(s, scripts, i) ==
    IF i > Len(scripts) THEN s
    ELSE IF ~scripts[i].isString
    THEN throw(s, Err("ScriptNotAUrl", ""))
    ELSE LET scriptURL == makeURLAbsolute(gameURL, scripts[i].url)
             s1 == [s EXCEPT !.scripts = Append(@, scriptURL)]
         IN  fetchScripts(
                 LoadManagerFetch(s1, scriptURL,
                                  Callback("script", "", scriptURL, NoJSON, NoJSON)),
                 scripts, i + 1)

\* loadScripts without the Array.isArray test
loadScriptsUnchecked(s, json) ==
    LET s1 == [s EXCEPT !.scripts = <<>>, !.fields = @ \cup {"scripts"}]
    IN  IF json.scripts.kind \in {"undefined", "falsy"} THEN s1
        ELSE fetchScripts(s1, json.scripts.items, 1)

loadScripts(s, json) ==
    LET s1 == [s EXCEPT !.scripts = <<>>, !.fields = @ \cup {"scripts"}]
    IN  IF json.scripts.kind \in {"undefined", "falsy"} THEN s1
        ELSE IF json.scripts.kind # "array"
        THEN throw(s1, Err("ScriptsNotAnArray", ""))
        ELSE fetchScripts(s1, json.scripts.items, 1)

\* modeName.replace('*', '') + '.pyxl': the first marker is removed
RECURSIVE removeFirstStar(_)
removeFirstStar(name) ==
    IF Len(name) = 0 THEN <<>>
    ELSE IF Head(name) = "*" THEN Tail(name)
    ELSE <<Head(name)>> \o removeFirstStar(Tail(name))

hasStar(name) == \E i \in 1..Len(name) : name[i] = "*"

RECURSIVE fetchModes(_, _, _)
fetchModes(s, modes, i) ==
    IF i > Len(modes) THEN s
    ELSE LET modeURL == makeURLAbsolute(gameURL, removeFirstStar(modes[i]) \o <<"pyxl">>)
             s1 == [s EXCEPT !.modes = Append(@, [name |-> modes[i], url |-> modeURL]),
                             !.numStartModes = IF hasStar(modes[i]) THEN @ + 1 ELSE @]
         IN  fetchModes(
                 LoadManagerFetch(s1, modeURL,
                                  Callback("mode", "", modeURL, NoJSON, NoJSON)),
                 modes, i + 1)

\* the test of numStartModes without its second branch
checkStartModesZeroOnly(s) ==
    IF s.numStartModes = 0 THEN throw(s, Err("NoStartingMode", ""))
    ELSE s

checkStartModes(s) ==
    IF s.numStartModes = 0 THEN throw(s, Err("NoStartingMode", ""))
    ELSE IF s.numStartModes > 1 THEN throw(s, Err("TooManyStartingModes", ""))
    ELSE s

loadModes(s, json) ==
    LET s1 == [s EXCEPT !.modes = <<>>, !.fields = @ \cup {"modes"},
                        !.numStartModes = 0]
    IN  IF json.modes.kind # "array"
        THEN throw(s1, Err("ModesNotAnArray", ""))
        ELSE checkStartModes(fetchModes(s1, json.modes.items, 1))

onConstantData(s, cb, url) == [s EXCEPT !.constants = @ \cup {cb.name}]

evalJSONGameConstantThrows(definition) ==
    definition.type \notin {"nil", "raw", "number", "boolean", "string",
                            "xy", "xyz", "rgb", "rgba"}

\* the keys of an object in the order keys.sort() leaves them
NameOrder == <<"A", "B", "C">>

SortedKeys(f) == SelectSeq(NameOrder, LAMBDA k : k \in DOMAIN f)

RECURSIVE loadConstantKeys(_, _, _, _)
loadConstantKeys(s, defs, keys, i) ==
    IF i > Len(keys) THEN s
    ELSE LET c == keys[i]
             definition == defs[c]
             constantURL == makeURLAbsolute(gameURL, definition.url)
             last == constantURL[Len(constantURL)]
             s1 == IF definition.type = "raw" /\ definition.url # NoURL
                   THEN IF last \in {"json", "yml"}
                        THEN LoadManagerFetch(s, constantURL,
                                 Callback("constant", c, constantURL, NoJSON, NoJSON))
                        ELSE throw(s, Err("UnsupportedFileFormat", c))
                   ELSE IF evalJSONGameConstantThrows(definition)
                        THEN throw(s, Err("UnrecognizedDataType", c))
                        ELSE [s EXCEPT !.constants = @ \cup {c}]
         IN  IF s1.threw THEN s1 ELSE loadConstantKeys(s1, defs, keys, i + 1)

loadConstants(s, json) ==
    LET s1 == [s EXCEPT !.constants = {}, !.fields = @ \cup {"constants"}]
    IN  IF json.constants.kind = "undefined" THEN s1
        ELSE loadConstantKeys(s1, json.constants.defs,
                              SortedKeys(json.constants.defs), 1)

onAssetJSON(s, cb, url) ==
    LET json == [ServerJSON(url) EXCEPT !.url = makeURLAbsolute(url, @)]
        s1 == [s EXCEPT !.fileContents = @ \cup {url}]
        type == assetTypeOf(url)
        s2 == CASE type = "font" -> loadFont(s1, cb.name, json, url)
                [] type = "sprite" -> loadSpritesheet(s1, cb.name, json, url, NoJSON)
                [] type = "sound" -> loadSound(s1, cb.name, json, url)
                [] type = "map" -> loadMap(s1, cb.name, json, url)
                [] OTHER -> [s1 EXCEPT !.log = @ \cup {Err("UnrecognizedAssetType", cb.name)}]
    IN  IF s2.threw \/ type \notin {"font", "sprite", "sound", "map"} THEN s2
        ELSE [s2 EXCEPT !.assetTable = Put(@, cb.name, Asset(type)),
                        !.assetList =
                            IF cb.name \in DOMAIN s2.assetTable THEN @
                            ELSE Append(@, [name |-> cb.name, jsonURL |-> url])]

RECURSIVE fetchAssets(_, _, _, _)
fetchAssets(s, assets, keys, i) ==
    IF i > Len(keys) THEN s
    ELSE LET assetURL == makeURLAbsolute(gameURL, assets[keys[i]])
         IN  fetchAssets(
                 LoadManagerFetch(s, assetURL,
                                  Callback("asset", keys[i], assetURL, NoJSON, NoJSON)),
                 assets, keys, i + 1)

loadAssets(s, json) ==
    IF json.assets.kind = "undefined" THEN s
    ELSE IF json.assets.kind # "object"
    THEN throw(s, Err("AssetsNotAnObject", ""))
    ELSE fetchAssets([s EXCEPT !.assetTable = <<>>, !.assetList = <<>>,
                               !.fields = @ \cup {"assets"}],
                     json.assets.map, SortedKeys(json.assets.map), 1)

\* The handler with the assets read before the constants
onGameJSONAssetsFirst(s, cb, url) ==
    LET json == defaultScreenSize(gameJSON)
        s0 == [s EXCEPT !.fields = @ \cup {"jsonURL", "json"},
                        !.fileContents = @ \cup {gameURL}]
        s1 == checkScreenSize(s0, json)
        s2 == IF s1.threw THEN s1 ELSE loadScripts(s1, json)
        s3 == IF s2.threw THEN s2 ELSE loadModes(s2, json)
        s4 == IF s3.threw THEN s3 ELSE loadAssets(s3, json)
    IN  IF s4.threw THEN s4 ELSE loadConstants(s4, json)

onGameJSON(s, cb, url) ==
    LET json == defaultScreenSize(gameJSON)
        s0 == [s EXCEPT !.fields = @ \cup {"jsonURL", "json"},
                        !.fileContents = @ \cup {gameURL}]
        s1 == checkScreenSize(s0, json)
        s2 == IF s1.threw THEN s1 ELSE loadScripts(s1, json)
        s3 == IF s2.threw THEN s2 ELSE loadModes(s2, json)
        s4 == IF s3.threw THEN s3 ELSE loadConstants(s3, json)
    IN  IF s4.threw THEN s4 ELSE loadAssets(s4, json)

RunHandler(s, cb, url) ==
    CASE cb.h = "manifest" -> onGameJSON(s, cb, url)
      [] cb.h = "script" -> onScriptText(s, cb, url)
      [] cb.h = "mode" -> onScriptText(s, cb, url)
      [] cb.h = "constant" -> onConstantData(s, cb, url)
      [] cb.h = "asset" -> onAssetJSON(s, cb, url)
      [] cb.h = "fontImage" -> onFontImage(s, cb, url)
      [] cb.h = "sheetImage" -> onSheetImage(s, cb, url)
      [] cb.h = "soundBuffer" -> onSoundBuffer(s, cb, url)
      [] cb.h = "mapSheetJSON" -> onMapSheetJSON(s, cb, url)
      [] cb.h = "tileDocument" -> onTileDocument(s, cb, url)

(***************************************************************************)
(* afterLoadGame, lines 91-297.                                            *)
(***************************************************************************)
afterLoadGame(s) ==
    LET s1 == NewLoadManager(s)
        s2 == loadSpritesheet(s1, "_quadplayLogoSprite",
                              JSON(logoURL, NoURL, "none"), NoURL, NoJSON)
        s3 == [s2 EXCEPT !.fileContents = {}, !.fields = {}, !.scripts = <<>>,
                         !.modes = <<>>, !.constants = {}, !.assetTable = <<>>,
                         !.assetList = <<>>, !.spritesheets = 0, !.sounds = 0,
                         !.spritePixels = 0, !.maxSpritesheetWidth = 0,
                         !.maxSpritesheetHeight = 0]
        s4 == LoadManagerFetch(s3, gameURL,
                               Callback("manifest", "", gameURL, NoJSON, NoJSON))
    IN  LoadManagerEnd(s4)

(***************************************************************************)
(* Inputs.                                                                 *)
(***************************************************************************)
SeqsUpTo(S, n) == UNION {[1..k -> S] : k \in 0..n}

HexInputs == SeqsUpTo(SampleHexDigits, MaxHexLen)
                 \cup SeqsUpTo(AllHexDigits, MaxShortHexLen)

SampleWords == {WordOf(ch) : ch \in [1..4 -> ChannelSamples]}

PixelBuffers == UNION {[1..k -> SampleWords] : k \in 1..MaxPixels}

SheetIdle == sheet = <<>>

ParseIdle == parse = <<>>

ConstIdle == constEval = <<>>

HexIdle == /\ hexStr = <<>>
           /\ hexRes = Pending

QuantIdle == /\ qRaw = <<>>
             /\ qData = <<>>
             /\ qPasses = 0

(***************************************************************************)
(* The manifests the loader is run on: a base manifest with one or two of  *)
(* its fields varied.                                                      *)
(***************************************************************************)
ScreenXs == {384, 192, 128, 64, 100}
ScreenYs == {224, 112, 128, 64, 100}

ScreenSizes ==
    {[defined |-> FALSE, x |-> 0, y |-> 0]}
        \cup {[defined |-> TRUE, x |-> x, y |-> y] : x \in ScreenXs, y \in ScreenYs}

ScriptEntries ==
    {[isString |-> TRUE, url |-> <<"s1", "pyxl">>], [isString |-> FALSE, url |-> NoURL]}

ScriptsValues ==
    {[kind |-> k, items |-> <<>>] : k \in {"undefined", "falsy", "object"}}
        \cup {[kind |-> "array", items |-> a] : a \in SeqsUpTo(ScriptEntries, MaxScripts)}

ModeNames == {<<"Play">>, <<"Play", "*">>, <<"Title", "*">>}

ModesValues ==
    {[kind |-> k, items |-> <<>>] : k \in {"undefined", "object"}}
        \cup {[kind |-> "array", items |-> a] : a \in SeqsUpTo(ModeNames, MaxModes)}

ConstantDefinitions ==
    {[type |-> "number", url |-> NoURL], [type |-> "grid", url |-> NoURL],
     [type |-> "raw", url |-> <<"c", "json">>], [type |-> "raw", url |-> <<"c", "yml">>],
     [type |-> "raw", url |-> <<"c", "txt">>]}

ConstantsValues ==
    {[kind |-> "undefined", defs |-> <<>>]}
        \cup {[kind |-> "object", defs |-> [k \in {"A"} |-> d]] : d \in ConstantDefinitions}

AssetMaps == UNION {[K -> Descriptors] : K \in {{}, {"A"}, {"A", "B"}}}

AssetsValues ==
    {[kind |-> k, map |-> <<>>] : k \in {"undefined", "string"}}
        \cup {[kind |-> "object", map |-> m] : m \in AssetMaps}

BaseManifest ==
    [screenSize |-> [defined |-> FALSE, x |-> 0, y |-> 0],
     scripts |-> [kind |-> "undefined", items |-> <<>>],
     modes |-> [kind |-> "array", items |-> <<<<"Play", "*">>>>],
     constants |-> [kind |-> "undefined", defs |-> <<>>],
     assets |-> [kind |-> "undefined", map |-> <<>>]]

Manifests ==
    {[BaseManifest EXCEPT !.screenSize = v] : v \in ScreenSizes}
        \cup {[BaseManifest EXCEPT !.scripts = v, !.modes = w] :
                  v \in ScriptsValues, w \in ModesValues}
        \cup {[BaseManifest EXCEPT !.constants = v, !.assets = w] :
                  v \in ConstantsValues,
                  w \in {a \in AssetsValues : DOMAIN a.map \subseteq {"A"} /\ a.map \in [DOMAIN a.map -> {aSprite}]}}
        \cup {[BaseManifest EXCEPT !.assets = v] : v \in AssetsValues}

\* no call of afterLoadGame has been replaced by a later one
NoEarlier == [status |-> "none", pendingRequests |-> 0, resource |-> <<>>,
              successCalls |-> 0, failureCalls |-> 0]

LoadIdle == /\ gameJSON = BaseManifest
            /\ called = FALSE
            /\ load = NoLoad
            /\ earlier = NoEarlier

(***************************************************************************)
(* One load: the call of afterLoadGame, then the fetches and the audio     *)
(* decodes settling one at a time, in any order, each with either outcome. *)
(***************************************************************************)
InitLoad == /\ gameJSON \in Manifests
            /\ called = FALSE
            /\ load = NoLoad
            /\ earlier = NoEarlier
            /\ HexIdle
            /\ QuantIdle
            /\ SheetIdle
            /\ ParseIdle
            /\ ConstIdle

CallAfterLoadGame ==
    /\ ~called
    /\ called' = TRUE
    /\ load' = afterLoadGame(load)
    /\ UNCHANGED <<gameJSON, earlier, hexVars, quantVars, decodeVars>>

InFlight(s) == {url \in DOMAIN s.resource : s.resource[url].st = "loading"}

FetchSucceeds(url) ==
    /\ url \in InFlight(load)
    /\ load' = LoadManagerSettle(load, url, TRUE)
    /\ UNCHANGED <<gameJSON, called, earlier, hexVars, quantVars, decodeVars>>

FetchFails(url) ==
    /\ url \in InFlight(load)
    /\ load' = LoadManagerSettle(load, url, FALSE)
    /\ UNCHANGED <<gameJSON, called, earlier, hexVars, quantVars, decodeVars>>

AudioDecodeSucceeds(name) ==
    /\ name \in load.decoding
    /\ load' = onAudioDecoded(load, name)
    /\ UNCHANGED <<gameJSON, called, earlier, hexVars, quantVars, decodeVars>>

AudioDecodeFails(name) ==
    /\ name \in load.decoding
    /\ load' = onAudioFailure(load, name)
    /\ UNCHANGED <<gameJSON, called, earlier, hexVars, quantVars, decodeVars>>

NextLoad ==
    \/ CallAfterLoadGame
    \/ \E url \in DOMAIN load.resource : FetchSucceeds(url)
    \/ \E url \in DOMAIN load.resource : FetchFails(url)
    \/ \E name \in load.decoding : AudioDecodeSucceeds(name)
    \/ \E name \in load.decoding : AudioDecodeFails(name)

SpecLoad == InitLoad /\ [][NextLoad]_vars

(***************************************************************************)
(* afterLoadGame called a second time while fetches of the first call are  *)
(* outstanding.  The first call's LoadManager lives on with its counter,   *)
(* its fetches and its two callbacks; loadManager, gameSource,             *)
(* fileContents and resourceStats are globals, which the second call       *)
(* assigns anew and which every completion handler reads when it runs.     *)
(***************************************************************************)
ReloadManifests ==
    {[BaseManifest EXCEPT !.scripts = v] :
        v \in {w \in ScriptsValues : w.kind = "array"}}
      \cup {[BaseManifest EXCEPT !.assets = [kind |-> "object", map |-> m]] :
               m \in UNION {[K -> {aSprite, mMap, sSound, fFont}] : K \in {{"A"}}}}

InitReload == /\ gameJSON \in ReloadManifests
              /\ called = FALSE
              /\ load = NoLoad
              /\ earlier = NoEarlier
              /\ HexIdle
              /\ QuantIdle
              /\ SheetIdle
              /\ ParseIdle
              /\ ConstIdle

\* the LoadManager object the global referred to, and what its callbacks
\* have been called so far
ManagerOf(s) ==
    [status |-> s.status, pendingRequests |-> s.pendingRequests,
     resource |-> s.resource, successCalls |-> s.successCalls,
     failureCalls |-> s.failureCalls]

\* the second call: a new LoadManager with the second call's callbacks
CallAfterLoadGameAgain ==
    /\ called
    /\ earlier.status = "none"
    /\ InFlight(load) # {}
    /\ earlier' = ManagerOf(load)
    /\ load' = afterLoadGame([load EXCEPT !.successCalls = 0,
                                          !.failureCalls = 0])
    /\ UNCHANGED <<gameJSON, called, hexVars, quantVars, decodeVars>>

\* markRequestCompleted of the earlier LoadManager
earlierRequestCompleted(e, success) ==
    IF e.status \in {"complete", "failure"}
    THEN [e EXCEPT !.pendingRequests = @ - 1]
    ELSE IF ~success
    THEN [e EXCEPT !.pendingRequests = @ - 1, !.status = "failure",
                   !.failureCalls = @ + 1]
    ELSE IF e.pendingRequests = 1 /\ e.status = "loading"
    THEN [e EXCEPT !.pendingRequests = @ - 1, !.status = "complete",
                   !.successCalls = @ + 1]
    ELSE [e EXCEPT !.pendingRequests = @ - 1]

\* the handlers the earlier LoadManager registered for url, run on the
\* globals as they are now
earlierHandlers(e, s, url) == RunCallbacks(s, url, e.resource[url].cbs, 1)

\* the globals after the earlier LoadManager has settled url: its
\* callback calls computeAssetCredits(gameSource)
globalsAfter(e, ran) ==
    IF ran.threw THEN [ran EXCEPT !.threw = FALSE]
    ELSE IF e.pendingRequests = 1 /\ e.status = "loading"
    THEN computeAssetCredits(ran)
    ELSE ran

EarlierFetchSucceeds(url) ==
    /\ url \in InFlight(earlier)
    /\ IF earlier.status = "failure"
       THEN /\ earlier' = [earlier EXCEPT !.resource[url].st = "success",
                                          !.pendingRequests = @ - 1]
            /\ load' = load
       ELSE \E ran \in {earlierHandlers(earlier, load, url)} :
               /\ earlier' = earlierRequestCompleted(
                                 [earlier EXCEPT !.resource[url].st = "success"],
                                 ~ran.threw)
               /\ load' = globalsAfter(earlier, ran)
    /\ UNCHANGED <<gameJSON, called, hexVars, quantVars, decodeVars>>

EarlierFetchFails(url) ==
    /\ url \in InFlight(earlier)
    /\ earlier' = earlierRequestCompleted(
                      [earlier EXCEPT !.resource[url].st = "failure"], FALSE)
    /\ UNCHANGED <<gameJSON, called, load, hexVars, quantVars, decodeVars>>

NextReload ==
    \/ CallAfterLoadGame
    \/ CallAfterLoadGameAgain
    \/ \E url \in DOMAIN load.resource : FetchSucceeds(url)
    \/ \E url \in DOMAIN load.resource : FetchFails(url)
    \/ \E url \in DOMAIN earlier.resource : EarlierFetchSucceeds(url)
    \/ \E url \in DOMAIN earlier.resource : EarlierFetchFails(url)
    \/ \E name \in load.decoding : AudioDecodeSucceeds(name)
    \/ \E name \in load.decoding : AudioDecodeFails(name)

SpecReload == InitReload /\ [][NextReload]_vars

(***************************************************************************)
(* The colour reader applied to every input.                               *)
(***************************************************************************)
InitHex == /\ hexStr \in HexInputs
           /\ hexRes = Pending
           /\ QuantIdle
           /\ LoadIdle
           /\ SheetIdle
           /\ ParseIdle
           /\ ConstIdle

CallParseHexColor ==
    /\ hexRes = Pending
    /\ hexRes' = parseHexColor(hexStr)
    /\ UNCHANGED <<hexStr, quantVars, loadVars, decodeVars>>

NextHex == CallParseHexColor

SpecHex == InitHex /\ [][NextHex]_vars

(***************************************************************************)
(* The quantiser applied to every buffer, then to its own output.          *)
(***************************************************************************)
InitQuant == /\ qRaw \in PixelBuffers
             /\ qData = qRaw
             /\ qPasses = 0
             /\ HexIdle
             /\ LoadIdle
             /\ SheetIdle
             /\ ParseIdle
             /\ ConstIdle

CallGetImageData4Bit ==
    /\ qPasses < MaxPasses
    /\ qData' = getImageData4Bit(qData)
    /\ qPasses' = qPasses + 1
    /\ UNCHANGED <<qRaw, hexVars, loadVars, decodeVars>>

NextQuant == CallGetImageData4Bit

SpecQuant == InitQuant /\ [][NextQuant]_vars

(***************************************************************************)
(* One sprite sheet, alone or as the sheet of a map: the image arrives and *)
(* is decoded, then the map's tile document arrives and is decoded.        *)
(***************************************************************************)
\* an image whose pixel number marked (if any) is the translucent one
MarkedImage(w, h, marked) == [width |-> w, height |-> h, marked |-> marked]

SheetSizes == (1..MaxSheetW) \X (1..MaxSheetH)

SpriteSizes == {1, 2}

Gutters == {0, 1}

SpriteIDSeeds == {0, 8192}

Point(x, y) == [x |-> x, y |-> y]

NoEnd == [hasX |-> FALSE, x |-> 0, hasY |-> FALSE, y |-> 0]

End(x, y) == [hasX |-> TRUE, x |-> x, hasY |-> TRUE, y |-> y]

AnimationData(hasX, p, hasStart, start, hasEnd, end, extrapolate) ==
    [hasX |-> hasX, x |-> p.x, y |-> p.y, hasStart |-> hasStart,
     start |-> start, hasEnd |-> hasEnd, end |-> end,
     extrapolate |-> extrapolate]

NoNames == [kind |-> "none",
            animation |-> AnimationData(FALSE, Point(0, 0), FALSE, Point(0, 0),
                                        FALSE, NoEnd, "")]

\* the cells of a 3 x 2 grid, and the cells next to it
AnimationPoints == {Point(x, y) : x \in 0..3, y \in 0..2}

AnimationEnds ==
    {End(p.x, p.y) : p \in AnimationPoints}
        \cup {[hasX |-> TRUE, x |-> 1, hasY |-> FALSE, y |-> 0],
              [hasX |-> FALSE, x |-> 0, hasY |-> TRUE, y |-> 1]}

NamesValues ==
    {[NoNames EXCEPT !.kind = k] : k \in {"array", "string", "zero"}}
      \cup {[kind |-> "object",
             animation |-> AnimationData(TRUE, p, FALSE, Point(0, 0),
                                         FALSE, NoEnd, e)] :
               p \in AnimationPoints, e \in {"", "loop"}}
      \cup {[kind |-> "object",
             animation |-> AnimationData(FALSE, Point(0, 0), TRUE, p,
                                         FALSE, NoEnd, e)] :
               p \in AnimationPoints, e \in {"", "clamp"}}
      \cup {[kind |-> "object",
             animation |-> AnimationData(FALSE, Point(0, 0), TRUE, p,
                                         TRUE, q, "")] :
               p \in AnimationPoints, q \in AnimationEnds}
      \cup {[kind |-> "object",
             animation |-> AnimationData(h, Point(0, 0), h, Point(0, 0),
                                         FALSE, NoEnd, "")] :
               h \in BOOLEAN}

SpritesheetJSON(x, y, gutter, transpose, names) ==
    [url |-> "sheet.png", spriteSize |-> Point(x, y), gutter |-> gutter,
     transpose |-> transpose, names |-> names]

Layer(size, data) == [width |-> size[1], height |-> size[2], data |-> data]

TileDocument(tilewidth, tileheight, columns, name, width, height, layers) ==
    [tilewidth |-> tilewidth, tileheight |-> tileheight, columns |-> columns,
     name |-> name, width |-> width, height |-> height, layers |-> layers]

NoTileDocument == TileDocument(0, 0, 0, "", 0, 0, <<>>)

MapJSON(defined, key, flipY) == [defined |-> defined, key |-> key, flipY |-> flipY]

\* 0, 1, 2, 4, 0x80000001, 0x40000002, 0xC0000001 and 0x30000003
GIDSamples == {<<0, 0>>, <<0, 1>>, <<0, 2>>, <<0, 4>>, <<8, 1>>, <<4, 2>>,
               <<12, 1>>, <<3, 3>>}

LayerSizes == {<<2, 1>>, <<1, 2>>}

Layers == {Layer(size, <<g, h>>) :
              size \in LayerSizes, g \in GIDSamples, h \in {<<0, 2>>, <<4, 2>>}}

\* the documents written for a sheet of 1 x 1 sprites on a w x h image, and
\* those that disagree with it or among their layers
TileDocuments(w, h) ==
    {TileDocument(1, 1, columns, "tiles", w, h, <<layer>>) :
        columns \in 1..MaxSheetW, layer \in Layers}
      \cup {TileDocument(1, 1, w, "tiles", w, h,
                         <<Layer(<<1, 1>>, <<<<0, 1>>>>),
                           Layer(<<2, 1>>, <<<<0, 1>>, <<8, 1>>>>)>>),
            TileDocument(1, 1, w, "tiles", w, h,
                         <<Layer(<<1, 2>>, <<<<0, 1>>, <<0, 0>>>>),
                           Layer(<<1, 2>>, <<<<0, 0>>, <<4, 1>>>>)>>),
            TileDocument(1, 1, w, "tiles", w, h,
                         <<Layer(<<2, 2>>, <<<<0, 1>>, <<0, 0>>, <<8, 1>>, <<12, 1>>>>),
                           Layer(<<2, 2>>, <<<<0, 0>>, <<4, 1>>, <<0, 1>>, <<0, 0>>>>),
                           Layer(<<2, 2>>, <<<<0, 1>>, <<0, 1>>, <<0, 0>>, <<0, 0>>>>)>>),
            TileDocument(2, 1, w, "tiles", w, h,
                         <<Layer(<<1, 1>>, <<<<0, 1>>>>)>>),
            TileDocument(1, 1, w, "tiles", w + 1, h,
                         <<Layer(<<1, 1>>, <<<<0, 1>>>>)>>),
            TileDocument(1, 2, w, "tiles", w, h,
                         <<Layer(<<1, 1>>, <<<<0, 1>>>>)>>),
            TileDocument(1, 1, w, "tiles", w, h + 1,
                         <<Layer(<<1, 1>>, <<<<0, 1>>>>)>>)}

SheetInput(json, image, seed, mapJSON, doc) ==
    [pc |-> "fetch", json |-> json, image |-> image, seed |-> seed,
     mapJSON |-> mapJSON, doc |-> doc,
     dataPair |-> <<>>, st |-> NewSpritesheet(seed), map |-> NoMap]

\* every geometry, over images with at most one translucent pixel
GeometryInputs ==
    UNION {{SheetInput(SpritesheetJSON(x, y, gutter, transpose, NoNames),
                       MarkedImage(size[1], size[2], marked), seed,
                       MapJSON(FALSE, "", FALSE), NoTileDocument) :
               x \in SpriteSizes, y \in SpriteSizes, gutter \in Gutters,
               transpose \in BOOLEAN, marked \in 0..(size[1] * size[2]),
               seed \in SpriteIDSeeds}
           : size \in SheetSizes}

\* every names table, over sheets of 1 x 1 sprites
NamesInputs ==
    {SheetInput(SpritesheetJSON(1, 1, 0, transpose, names),
                MarkedImage(size[1], size[2], 0), 0,
                MapJSON(FALSE, "", FALSE), NoTileDocument) :
        transpose \in BOOLEAN, size \in SheetSizes, names \in NamesValues}

\* every tile document, over sheets of 1 x 1 sprites
MapInputs ==
    UNION {{SheetInput(SpritesheetJSON(1, 1, 0, o[1], NoNames),
                       MarkedImage(size[1], size[2], 0), 0,
                       MapJSON(TRUE, "<default>", o[2]), doc) :
               o \in {<<FALSE, FALSE>>, <<FALSE, TRUE>>, <<TRUE, FALSE>>},
               doc \in TileDocuments(size[1], size[2])}
           : size \in SheetSizes}
      \cup {SheetInput(SpritesheetJSON(1, 1, 0, FALSE, NoNames),
                       MarkedImage(1, 1, 0), 0, MapJSON(TRUE, key, FALSE),
                       TileDocument(1, 1, 1, "tiles", 1, 1,
                                    <<Layer(<<1, 1>>, <<<<0, 1>>>>)>>)) :
               key \in {"tiles", "other"}}
      \cup {SheetInput(SpritesheetJSON(1, 1, 0, FALSE, NoNames),
                       MarkedImage(1, 1, 0), 0, MapJSON(TRUE, key, FALSE),
                       TileDocument(1, 1, 1, "tiles", 1, 2,
                                    <<Layer(<<1, 1>>, <<<<0, 1>>>>)>>)) :
               key \in {"tiles", "other"}}
      \cup {SheetInput(SpritesheetJSON(1, 1, 0, FALSE,
                           [kind |-> "object",
                            animation |-> AnimationData(
                                FALSE, Point(0, 0), TRUE, Point(0, 0),
                                TRUE, End(1, 0), "")]),
                       MarkedImage(2, 1, 0), 0,
                       MapJSON(TRUE, "<default>", FALSE),
                       TileDocument(1, 1, 2, "tiles", 2, 1,
                                    <<Layer(<<2, 1>>, <<<<0, 1>>, <<8, 2>>>>)>>))}

InitSheet == /\ \/ sheet \in GeometryInputs
                \/ sheet \in NamesInputs
                \/ sheet \in MapInputs
             /\ ParseIdle
             /\ ConstIdle
             /\ HexIdle
             /\ QuantIdle
             /\ LoadIdle

\* the image of json.url arrives: the post-processor, then the handler
SheetImageLoaded ==
    /\ sheet.pc = "fetch"
    /\ LET dataPair == getImageData4BitAndFlip(sheet.image)
       IN  sheet' = [sheet EXCEPT
                        !.pc = "decoded",
                        !.dataPair = dataPair,
                        !.st = spritesheetImageHandler(@, sheet.json, dataPair)]
    /\ UNCHANGED <<parse, constEval, hexVars, quantVars, loadVars>>

\* loadMap's callback fetched the tile document, which arrives
TileDocumentLoaded ==
    /\ sheet.pc = "decoded"
    /\ sheet.mapJSON.defined
    /\ sheet.st.callbacks = 1
    /\ sheet' = [sheet EXCEPT
                    !.pc = "map",
                    !.map = tileDocumentHandler(sheet.st, sheet.json,
                                                sheet.mapJSON, sheet.doc)]
    /\ UNCHANGED <<parse, constEval, hexVars, quantVars, loadVars>>

NextSheet == SheetImageLoaded \/ TileDocumentLoaded

SpecSheet == InitSheet /\ [][NextSheet]_vars

(***************************************************************************)
(* _parse called on every short text over the characters it branches on,   *)
(* from its first character and, for the shortest, from every offset up to *)
(* one past the end, and on array literals written from their values.      *)
(***************************************************************************)
Alphabet == {" ", "\"", "[", "]", "{", "}", ",", ":", "1", Ellipsis}

Atoms == {Number(n) : n \in 1..3}

FlatArrays == {Array(s) : s \in SeqsUpTo(Atoms, 2)}

NestedArrays == {Array(s) : s \in [1..1 -> Atoms \cup FlatArrays]
                                    \cup [1..2 -> Atoms \cup FlatArrays]}

Separators == {<<",">>, <<",", " ">>, <<" ">>}

Paddings == {<<>>, <<" ">>}

\* the text of a value: elements joined by sep, pad before each ']'
RECURSIVE Render(_, _, _)
RECURSIVE RenderElements(_, _, _, _)
RenderElements(s, k, sep, pad) ==
    IF k > Len(s) THEN <<>>
    ELSE (IF k > 1 THEN sep ELSE <<>>) \o Render(s[k], sep, pad)
             \o RenderElements(s, k + 1, sep, pad)

Render(value, sep, pad) ==
    IF value.t = "number" THEN <<Digits[value.n + 1]>>
    ELSE <<"[">> \o RenderElements(value.a, 1, sep, pad) \o pad \o <<"]">>

\* an ellipsis as an element or as a key, bare or quoted, after nothing or
\* after one element or entry, with or without a space before the closer
EllipsisTokens == {<<Ellipsis>>, <<"\"", Ellipsis, "\"">>}

EllipsisArrays ==
    {<<"[">> \o before \o token \o pad \o <<"]">> \o after :
        before \in {<<>>, <<"1", ",">>}, token \in EllipsisTokens,
        pad \in Paddings, after \in Paddings}

EllipsisTables ==
    {<<"{">> \o before \o token \o pad \o <<"}">> \o after :
        before \in {<<>>, <<"1", ":", "1", ",">>}, token \in EllipsisTokens,
        pad \in Paddings, after \in Paddings}

\* the named constants with the values they stand for, pi being Math.PI
toUpperCase(token) ==
    [k \in 1..Len(token) |->
        IF \E j \in 1..Len(LowerCase) : LowerCase[j] = token[k]
        THEN UpperCase[CHOOSE j \in 1..Len(LowerCase) : LowerCase[j] = token[k]]
        ELSE token[k]]

Capitalised(token) ==
    [k \in 1..Len(token) |-> IF k = 1 THEN toUpperCase(token)[1] ELSE token[k]]

DesignatedConstants ==
    {<<<<"t", "r", "u", "e">>, Boolean(TRUE)>>,
     <<<<"f", "a", "l", "s", "e">>, Boolean(FALSE)>>,
     <<<<"n", "i", "l">>, undefined>>,
     <<<<"U+2205">>, undefined>>,
     <<<<"i", "n", "f", "i", "n", "i", "t", "y">>, Infinity(1)>>,
     <<<<"+", "i", "n", "f", "i", "n", "i", "t", "y">>, Infinity(1)>>,
     <<<<"-", "i", "n", "f", "i", "n", "i", "t", "y">>, Infinity(-1)>>,
     <<<<"U+221E">>, Infinity(1)>>,
     <<<<"+", "U+221E">>, Infinity(1)>>,
     <<<<"-", "U+221E">>, Infinity(-1)>>,
     <<<<"U+03C0">>, TimesPi(Number(1))>>,
     <<<<"-", "U+03C0">>, TimesPi(Number(-1))>>}
      \cup {<<<<FractionGlyphs[j][1]>>,
              Rational(FractionGlyphs[j][2], FractionGlyphs[j][3])>> :
                j \in 1..Len(FractionGlyphs)}
      \cup {<<<<"-", FractionGlyphs[j][1]>>,
              Rational(-FractionGlyphs[j][2], FractionGlyphs[j][3])>> :
                j \in 1..Len(FractionGlyphs)}

CasedConstants ==
    UNION {{c, <<toUpperCase(c[1]), c[2]>>, <<Capitalised(c[1]), c[2]>>} :
              c \in DesignatedConstants}

\* n written in decimal
RECURSIVE Decimal(_)
Decimal(n) ==
    IF n < 10 THEN <<Digits[n + 1]>>
    ELSE Decimal(n \div 10) \o <<Digits[(n % 10) + 1]>>

Percentages == {0, 5, 50, 100, 150}

PercentConstants ==
    {<<Decimal(n) \o <<"%">>, Rational(n, 100)>> : n \in Percentages}

\* tokens outside the claims: the other words of the table, degrees, a
\* signed number, a word the table does not hold
OtherConstants ==
    {<<"n", "a", "n">>, <<"b", "u", "i", "l", "t", "i", "n">>,
     <<"f", "u", "n", "c", "t", "i", "o", "n">>,
     <<"9", "0", "d", "e", "g">>, <<"1", "8", "0", "U+00B0">>,
     <<"-", "5">>, <<"+", "7", "%">>, <<"%">>, <<"d", "e", "g">>,
     <<"t", "r", "u">>}

NotCalled == [done |-> FALSE, threw |-> FALSE, result |-> NaN, next |-> 0]

ParseInput(source, literal, value) ==
    [source |-> source, start |-> 0, literal |-> literal, value |-> value,
     outcome |-> NotCalled]

InitParse ==
    /\ \/ parse \in {ParseInput(source, FALSE, NaN) :
                        source \in SeqsUpTo(Alphabet, MaxSourceLen)}
       \/ parse \in {ParseInput(source, FALSE, NaN) :
                        source \in EllipsisArrays \cup EllipsisTables}
       \/ parse \in {ParseInput(c[1], FALSE, c[2]) :
                        c \in CasedConstants \cup PercentConstants}
       \/ parse \in {ParseInput(source, FALSE, NaN) : source \in OtherConstants}
       \/ parse \in {[ParseInput(source, FALSE, NaN) EXCEPT !.start = i] :
                        source \in SeqsUpTo(Alphabet, MaxOffsetLen),
                        i \in 1..(MaxOffsetLen + 1)}
       \/ parse \in {ParseInput(Render(value, sep, pad), TRUE, value) :
                        value \in FlatArrays \cup NestedArrays,
                        sep \in Separators, pad \in Paddings}
    /\ SheetIdle
    /\ ConstIdle
    /\ HexIdle
    /\ QuantIdle
    /\ LoadIdle

CallParse ==
    /\ ~parse.outcome.done
    /\ LET r == _parse(parse.source, parse.start)
       IN  parse' = [parse EXCEPT !.outcome =
                        [done |-> TRUE, threw |-> r.threw,
                         result |-> r.result, next |-> r.next]]
    /\ UNCHANGED <<sheet, constEval, hexVars, quantVars, loadVars>>

NextParse == CallParse

SpecParse == InitParse /\ [][NextParse]_vars

(***************************************************************************)
(* evalJSONGameConstant called on every definition of every type over a    *)
(* value of each JavaScript type, and on the composite definitions whose   *)
(* properties are such definitions.                                        *)
(***************************************************************************)
ImplementedTypes == {"nil", "raw", "number", "boolean", "string",
                     "xy", "xyz", "rgb", "rgba"}

DeclaredTypes == {"grid", "object", "array"}

UnknownTypes == {"color", "int", ""}

ConstantTypes == ImplementedTypes \cup DeclaredTypes \cup UnknownTypes

LeafValue(kind, num, text, hex) ==
    [kind |-> kind, num |-> num, text |-> text, hex |-> hex]

LeafValues ==
    {LeafValue(kind, 0, <<>>, <<>>) : kind \in {"undefined", "null", "true", "false"}}
      \cup {LeafValue("number", n, <<>>, <<>>) : n \in {0, 5}}
      \cup {LeafValue("string", 0, text, <<>>) :
               text \in {<<>>, <<"1">>, <<" ", "5", "0", "%", " ">>,
                         <<"t", "r", "u", "e">>, <<"\"">>}}
      \cup {LeafValue("hexString", 0, <<>>, hex) :
               hex \in {<<15, 0, 8>>, <<1, 2, 3, 4>>, <<1, 2, 3, 4, 5>>, <<>>}}

Leaves ==
    {Definition(type, hasUrl, v.kind, v.num, v.text, v.hex, <<>>) :
        type \in ConstantTypes, hasUrl \in BOOLEAN, v \in LeafValues}

Properties ==
    {Definition("number", FALSE, "number", 5, <<>>, <<>>, <<>>),
     Definition("number", FALSE, "string", 0, <<"5", "0", "%">>, <<>>, <<>>),
     Definition("nil", FALSE, "undefined", 0, <<>>, <<>>, <<>>),
     Definition("raw", FALSE, "null", 0, <<>>, <<>>, <<>>),
     Definition("grid", FALSE, "undefined", 0, <<>>, <<>>, <<>>),
     Definition("color", FALSE, "number", 5, <<>>, <<>>, <<>>)}

Composites ==
    {Definition(type, FALSE, "object", 0, <<>>, <<>>, fields) :
        type \in ConstantTypes, fields \in SeqsUpTo(Properties, MaxProperties)}
      \cup {Definition("rgba", FALSE, "object", 0, <<>>, <<>>, fields \o <<a>>) :
               fields \in [1..3 -> {p \in Properties : p.type = "number"}],
               a \in Properties}

NotEvaluated == [done |-> FALSE, threw |-> FALSE, error |-> "", logged |-> 0,
                 value |-> undefined]

InitConstant ==
    /\ \/ constEval \in {[json |-> json, outcome |-> NotEvaluated] : json \in Leaves}
       \/ constEval \in {[json |-> json, outcome |-> NotEvaluated] :
                            json \in Composites}
    /\ SheetIdle
    /\ ParseIdle
    /\ HexIdle
    /\ QuantIdle
    /\ LoadIdle

CallEvalJSONGameConstant ==
    /\ ~constEval.outcome.done
    /\ LET r == evalJSONGameConstant(constEval.json)
       IN  constEval' = [constEval EXCEPT !.outcome =
                            [done |-> TRUE, threw |-> r.threw, error |-> r.error,
                             logged |-> r.logged, value |-> r.value]]
    /\ UNCHANGED <<sheet, parse, hexVars, quantVars, loadVars>>

NextConstant == CallEvalJSONGameConstant

SpecConstant == InitConstant /\ [][NextConstant]_vars

(***************************************************************************)
(* Claims about the load.                                                  *)
(***************************************************************************)
Settled == called /\ InFlight(load) = {} /\ load.decoding = {}

ManifestProcessed == "json" \in load.fields

Calls == load.successCalls + load.failureCalls

EffectiveScreen ==
    IF gameJSON.screenSize.defined
    THEN <<gameJSON.screenSize.x, gameJSON.screenSize.y>>
    ELSE <<384, 224>>

SupportedScreens == {<<384, 224>>, <<192, 112>>, <<128, 128>>, <<64, 64>>}

Marked(name) == "*" \in {name[j] : j \in 1..Len(name)}

StartCount ==
    Cardinality({i \in 1..Len(gameJSON.modes.items) : Marked(gameJSON.modes.items[i])})

ScriptsWellFormed ==
    \/ gameJSON.scripts.kind \in {"undefined", "falsy"}
    \/ /\ gameJSON.scripts.kind = "array"
       /\ \A i \in 1..Len(gameJSON.scripts.items) : gameJSON.scripts.items[i].isString

ConstantWellFormed(d) ==
    IF d.type = "raw" /\ d.url # NoURL
    THEN d.url[Len(d.url)] \in {"json", "yml"}
    ELSE d.type \in {"nil", "raw", "number", "boolean", "string", "xy", "xyz", "rgb", "rgba"}

ValidManifest ==
    /\ EffectiveScreen \in SupportedScreens
    /\ ScriptsWellFormed
    /\ gameJSON.modes.kind = "array"
    /\ StartCount = 1
    /\ \A c \in DOMAIN gameJSON.constants.defs : ConstantWellFormed(gameJSON.constants.defs[c])
    /\ gameJSON.assets.kind \in {"undefined", "object"}

\* C1: for a valid manifest and every order and outcome of the fetches, the
\* success and failure callbacks are invoked at most once in total at any
\* time, and exactly once in total when nothing of the load is outstanding.
C1_ExactlyOneCallback ==
    (called /\ ValidManifest) =>
        /\ Calls <= 1
        /\ Settled => Calls = 1

C1_Witness ==
    /\ Settled
    /\ ValidManifest
    /\ DOMAIN gameJSON.assets.map = {"A", "B"}
    /\ gameJSON.assets.map["A"] = sSound
    /\ load.successCalls = 1
    /\ load.failureCalls = 0

InGameDir(url) == <<Root>> \o url

AssetURLs(d) ==
    LET json == ServerJSON(InGameDir(d))
    IN  {InGameDir(d)}
            \cup (IF d[2] \in {"sprite", "font", "sound", "map"}
                  THEN {InGameDir(json.url)} ELSE {})
            \cup (IF d[2] = "map"
                  THEN {InGameDir(json.spriteUrl),
                        InGameDir(ServerJSON(InGameDir(json.spriteUrl)).url)}
                  ELSE {})

RequiredURLs ==
    {gameURL, logoURL}
        \cup {InGameDir(gameJSON.scripts.items[i].url) : i \in 1..Len(gameJSON.scripts.items)}
        \cup {InGameDir(SelectSeq(gameJSON.modes.items[i], LAMBDA t : t # "*") \o <<"pyxl">>) :
                  i \in 1..Len(gameJSON.modes.items)}
        \cup {InGameDir(gameJSON.constants.defs[c].url) :
                  c \in {k \in DOMAIN gameJSON.constants.defs :
                             gameJSON.constants.defs[k].url # NoURL}}
        \cup UNION {AssetURLs(gameJSON.assets.map[a]) : a \in DOMAIN gameJSON.assets.map}

Succeeded == {url \in DOMAIN load.resource : load.resource[url].st = "success"}

\* C2: when the success callback has been invoked, no fetch of the load is
\* outstanding and none is still to be issued: the manifest, every script,
\* mode, external constant and asset descriptor, and every file a descriptor
\* leads to (sheet image, a map's sheet descriptor, that sheet's image, the
\* tile document) has been fetched and has completed.
C2_SuccessAfterWholeGraph ==
    load.successCalls >= 1 =>
        /\ InFlight(load) = {}
        /\ load.pendingRequests = 0
        /\ RequiredURLs \subseteq Succeeded

C2_Witness ==
    /\ load.successCalls = 1
    /\ "A" \in DOMAIN gameJSON.assets.map
    /\ gameJSON.assets.map["A"] = mMap
    /\ <<Root, "m", "tmx">> \in Succeeded
    /\ "A" \in load.decoded

UnsupportedScreenSize == Err("UnsupportedScreenSize", "")

\* C3: manifest processing accepts the screen size (and goes on to the
\* scripts) exactly when it is 384x224, 192x112, 128x128 or 64x64, an absent
\* size counting as 384x224; any other pair is rejected with the
\* unsupported-screen-size error.
C3_ScreenSize ==
    ManifestProcessed =>
        /\ (UnsupportedScreenSize \in load.errors) <=> (EffectiveScreen \notin SupportedScreens)
        /\ ("scripts" \in load.fields) <=> (EffectiveScreen \in SupportedScreens)

C3_Witness ==
    /\ ManifestProcessed
    /\ EffectiveScreen = <<384, 112>>
    /\ UnsupportedScreenSize \in load.errors
    /\ load.failureCalls = 1

\* C4: for every modes list, manifest processing gets past the validation of
\* the modes exactly when one mode name carries the marker '*'; with none
\* (also the empty list) or with two or more it throws a manifest error.
C4_StartModes ==
    ("modes" \in load.fields /\ gameJSON.modes.kind = "array") =>
        /\ ("constants" \in load.fields) <=> (StartCount = 1)
        /\ (Err("NoStartingMode", "") \in load.errors) <=> (StartCount = 0)
        /\ (Err("TooManyStartingModes", "") \in load.errors) <=> (StartCount >= 2)

C4_Witness ==
    /\ "modes" \in load.fields
    /\ StartCount = 2
    /\ Err("TooManyStartingModes", "") \in load.errors
    /\ "constants" \notin load.fields

HasNonStringScript ==
    /\ gameJSON.scripts.kind = "array"
    /\ \E i \in 1..Len(gameJSON.scripts.items) : ~gameJSON.scripts.items[i].isString

Aborted == load.failureCalls = 1 /\ load.successCalls = 0

\* C5 as stated: a manifest whose scripts field is missing or not an array,
\* whose modes field is missing or not an array, or with a script entry that
\* is not a string aborts the load: the failure callback is invoked and the
\* success callback never is.
C5_Original ==
    (\/ gameJSON.scripts.kind # "array"
     \/ gameJSON.modes.kind # "array"
     \/ HasNonStringScript) =>
        /\ load.successCalls = 0
        /\ ManifestProcessed => Aborted

\* C5 amended: a manifest whose scripts field is present, truthy and not an
\* array, whose modes field is missing or not an array, or with a script
\* entry that is not a string aborts the load (failure callback invoked,
\* success callback never); a missing or falsy scripts field is read as the
\* empty list and raises no error.
C5_StructureAborts ==
    /\ (\/ gameJSON.scripts.kind = "object"
        \/ gameJSON.modes.kind # "array"
        \/ HasNonStringScript) =>
           /\ load.successCalls = 0
           /\ ManifestProcessed => Aborted
    /\ (gameJSON.scripts.kind \in {"undefined", "falsy"} /\ "scripts" \in load.fields) =>
           /\ load.scripts = <<>>
           /\ Err("ScriptsNotAnArray", "") \notin load.errors

C5_Witness ==
    /\ ManifestProcessed
    /\ gameJSON.scripts.kind = "object"
    /\ gameJSON.modes.kind = "array"
    /\ StartCount = 1
    /\ Err("ScriptsNotAnArray", "") \in load.errors
    /\ Aborted

DecodeErrors == {"AnimationRange", "SheetMismatch", "NoSpriteUrlTable"}

Declared == DOMAIN gameJSON.assets.map

Decodable(a) ==
    /\ gameJSON.assets.map[a][2] \in {"font", "sprite", "sound", "map"}
    /\ gameJSON.assets.map[a] \notin {bSprite, nMap, kMap}

NoFetchFailed ==
    /\ \A url \in DOMAIN load.resource : load.resource[url].st # "failure"
    /\ load.audioFailed = {}

\* C6 as stated: when the decoding of one asset fails inside its completion
\* handler, every other asset of the manifest is still fetched, decoded and
\* stored in the asset table, and the outstanding-request counter returns to
\* zero.
C6_Original ==
    (Settled /\ NoFetchFailed) =>
        \A a \in Declared :
            (\E e \in DecodeErrors : Err(e, a) \in load.errors) =>
                /\ load.pendingRequests = 0
                /\ \A b \in Declared \ {a} :
                       Decodable(b) => (b \in DOMAIN load.assetTable /\ b \in load.decoded)

Resolve(url) == IF Len(url) > 0 /\ Head(url) = Root THEN url ELSE <<Root>> \o url

C17_SoundCounter ==
    /\ load.pendingRequests
         = Cardinality(InFlight(load)) + Cardinality(load.decoding)
    /\ load.decoding # {} => (load.pendingRequests > 0 /\ load.successCalls = 0)
    /\ Settled => load.pendingRequests = 0

\* every fetch is done and the counter is held at 1 by the decode of sound A
C17_Witness ==
    /\ called
    /\ load.status = "loading"
    /\ InFlight(load) = {}
    /\ load.decoding = {"A"}
    /\ load.pendingRequests = 1
    /\ load.successCalls = 0

\* the decode call for sound A threw and was reported once
C17_WitnessThrow ==
    /\ Settled
    /\ gameJSON.assets.kind = "object"
    /\ "A" \in DOMAIN gameJSON.assets.map
    /\ gameJSON.assets.map["A"] = tSound
    /\ "A" \in load.audioFailed
    /\ load.pendingRequests = 0
    /\ load.failureCalls = 1

(***************************************************************************)
(* Claims about parseHexColor.                                             *)
(***************************************************************************)
FracEq(p, q) == p.n * q.d = q.n * p.d

FracInUnit(p) == p.d > 0 /\ 0 <= p.n /\ p.n <= p.d

PairValue(str, i) == 16 * str[i] + str[i + 1]

RECURSIVE DupDigits(_)
DupDigits(str) ==
    IF Len(str) = 0 THEN <<>>
    ELSE <<Head(str), Head(str)>> \o DupDigits(Tail(str))

ColourEq(c1, c2) ==
    /\ FracEq(c1.r, c2.r) /\ FracEq(c1.g, c2.g)
    /\ FracEq(c1.b, c2.b) /\ FracEq(c1.a, c2.a)

\* C8: parseHexColor accepts exactly the lengths 1, 2, 3, 4, 6, 8; lengths 6
\* and 8 read the digit pairs over 255 (a = 1 when there is no fourth pair);
\* lengths 3 and 4 give the colour of the string with every digit doubled;
\* lengths 1 and 2 give a grey with a = 1; every channel lies in [0, 1].
C8_HexColorLengths ==
    hexRes.status # "pending" =>
        LET n == Len(hexStr) IN
        /\ (hexRes.status = "throw") <=> (n \notin {1, 2, 3, 4, 6, 8})
        /\ n \in {6, 8} =>
              /\ FracEq(hexRes.r, Frac(PairValue(hexStr, 1), 255))
              /\ FracEq(hexRes.g, Frac(PairValue(hexStr, 3), 255))
              /\ FracEq(hexRes.b, Frac(PairValue(hexStr, 5), 255))
              /\ n = 6 => FracEq(hexRes.a, Frac(1, 1))
              /\ n = 8 => FracEq(hexRes.a, Frac(PairValue(hexStr, 7), 255))
        /\ n \in {3, 4} =>
              /\ ColourEq(hexRes, parseHexColor(DupDigits(hexStr)))
              /\ FracEq(hexRes.r, Frac(17 * hexStr[1], 255))
              /\ FracEq(hexRes.g, Frac(17 * hexStr[2], 255))
              /\ FracEq(hexRes.b, Frac(17 * hexStr[3], 255))
              /\ n = 3 => FracEq(hexRes.a, Frac(1, 1))
              /\ n = 4 => FracEq(hexRes.a, Frac(17 * hexStr[4], 255))
        /\ n \in {1, 2} =>
              /\ FracEq(hexRes.r, hexRes.g)
              /\ FracEq(hexRes.g, hexRes.b)
              /\ FracEq(hexRes.a, Frac(1, 1))
        /\ hexRes.status = "return" =>
              /\ FracInUnit(hexRes.r) /\ FracInUnit(hexRes.g)
              /\ FracInUnit(hexRes.b) /\ FracInUnit(hexRes.a)

C8_Witness ==
    /\ hexStr = <<15, 0, 0>>
    /\ hexRes.status = "return"
    /\ ColourEq(hexRes, Colour(Frac(1, 1), Frac(0, 1), Frac(0, 1), Frac(1, 1)))

\* C9 as stated: parseHexColor("08") is the grey r = g = b = 8/15, a = 1.
C9_Original ==
    (hexStr = <<0, 8>> /\ hexRes.status # "pending") =>
        /\ hexRes.status = "return"
        /\ FracEq(hexRes.r, Frac(8, 15))
        /\ FracEq(hexRes.g, Frac(8, 15))
        /\ FracEq(hexRes.b, Frac(8, 15))
        /\ FracEq(hexRes.a, Frac(1, 1))

\* C9 amended: parseHexColor("08") is the grey r = g = b = 8/255, a = 1: the
\* divisor 255 is chosen from the two-character string before its leading
\* zero is removed.
C9_Grey08 ==
    (hexStr = <<0, 8>> /\ hexRes.status # "pending") =>
        /\ hexRes.status = "return"
        /\ FracEq(hexRes.r, Frac(8, 255))
        /\ FracEq(hexRes.g, Frac(8, 255))
        /\ FracEq(hexRes.b, Frac(8, 255))
        /\ FracEq(hexRes.a, Frac(1, 1))

C9_Witness ==
    /\ hexStr = <<0, 8>>
    /\ hexRes.status = "return"
    /\ hexRes.r.n = 8

(***************************************************************************)
(* Claims about getImageData4Bit.                                          *)
(***************************************************************************)
ExpectedSample(w) == WordOf([k \in 1..4 |-> ((Channel(w, k - 1) \div 16) % 16) * 17])

\* C10: every channel v of every sample becomes ((v >> 4) & 0xF) * 17,
\* independently of the other channels, after one pass and after a second
\* pass alike (the quantisation is idempotent); 0 stays 0 and 255 stays 255.
C10_QuantizeChannels ==
    qPasses >= 1 =>
        /\ Len(qData) = Len(qRaw)
        /\ \A i \in 1..Len(qRaw) :
              /\ qData[i] = ExpectedSample(qRaw[i])
              /\ \A k \in 0..3 :
                    /\ Channel(qRaw[i], k) = 0 => Channel(qData[i], k) = 0
                    /\ Channel(qRaw[i], k) = 255 => Channel(qData[i], k) = 255

\* a sample with the top bit set and a low nibble next to an empty channel,
\* quantised twice
C10_Witness ==
    /\ qPasses = 2
    /\ \E i \in 1..Len(qRaw) :
          /\ Channel(qRaw[i], 3) = 255
          /\ Channel(qRaw[i], 2) = 143
          /\ Channel(qRaw[i], 1) = 0
          /\ Channel(qData[i], 2) = 136
          /\ Channel(qData[i], 1) = 0
          /\ Channel(qData[i], 3) = 255

(***************************************************************************)
(* Claims about getImageData4BitAndFlip, loadSpritesheet and loadMap.      *)
(***************************************************************************)
ImageArrived == sheet.pc # "fetch"

Sprites == {sheet.st.grid[c] : c \in DOMAIN sheet.st.grid}

Object(a) == sheet.st.heap[a]

FlippedX(a) == Object(a)["flippedX"]

FlippedY(a) == Object(a)["flippedY"]

Variants(a) == {a, FlippedX(a), FlippedY(a), FlippedY(FlippedX(a))}

\* the two samples of an image, each channel v as ((v >> 4) & 0xF) * 17
QuantisedOpaque == ExpectedSample(OpaqueSample)

QuantisedTranslucent == ExpectedSample(TranslucentSample)

\* C11: the second buffer is the first mirrored in every row,
\* flipped[x + y*w] = original[(w-1-x) + y*w], with the same width and
\* height, and the first buffer is the quantised image, untouched by the flip.
C11_FlipBuffer ==
    ImageArrived =>
        LET original == sheet.dataPair[1]
            flipped == sheet.dataPair[2]
            w == sheet.image.width
            h == sheet.image.height
        IN  /\ original.width = w /\ original.height = h
            /\ flipped.width = w /\ flipped.height = h
            /\ Len(flipped.data) = Len(original.data)
            /\ \A x \in 0..(w - 1), y \in 0..(h - 1) :
                  flipped.data[x + y * w + 1] = original.data[(w - 1 - x) + y * w + 1]
            /\ original.data
                 = [k \in 1..(w * h) |->
                      IF k = sheet.image.marked THEN QuantisedTranslucent
                      ELSE QuantisedOpaque]

\* the translucent first pixel of a 3 x 2 image is the third of the flip
C11_Witness ==
    /\ ImageArrived
    /\ sheet.image = MarkedImage(3, 2, 1)
    /\ Channel(sheet.dataPair[1].data[1], 3) = 136
    /\ Channel(sheet.dataPair[2].data[3], 3) = 136
    /\ Channel(sheet.dataPair[2].data[1], 3) = 255

SameCell(a, b) ==
    /\ Object(a)["spritesheet"] = Object(b)["spritesheet"]
    /\ Object(a)["_x"] = Object(b)["_x"]
    /\ Object(a)["_y"] = Object(b)["_y"]
    /\ Object(a)["tileIndex"] = Object(b)["tileIndex"]
    /\ Object(a)["size"] = Object(b)["size"]

\* C12: for every sprite s of the grid, s.flippedX.flippedY and
\* s.flippedY.flippedX are one record, of scale (-1,-1); s.flippedX has
\* scale (-1,1), s.flippedY (1,-1), s (1,1); the four share sheet, cell
\* position and size.
C12_VariantScales ==
    ImageArrived =>
        \A s \in Sprites :
            /\ FlippedY(FlippedX(s)) = FlippedX(FlippedY(s))
            /\ Object(FlippedY(FlippedX(s)))["scale"] = <<-1, -1>>
            /\ Object(FlippedX(s))["scale"] = <<-1, 1>>
            /\ Object(FlippedY(s))["scale"] = <<1, -1>>
            /\ Object(s)["scale"] = <<1, 1>>
            /\ \A v \in Variants(s) : SameCell(v, s)

\* a decoded sheet of at least two sprites
C12_Witness ==
    /\ ImageArrived
    /\ sheet.st.error = ""
    /\ Cardinality(Sprites) >= 2
    /\ \E s \in Sprites : Cardinality(Variants(s)) = 4

\* C18: the four variants are closed under both flips, each flip is an
\* involution on them, and flipping along X (Y) negates the x (y) scale.
C18_Original ==
    ImageArrived =>
        \A s \in Sprites : \A v \in Variants(s) :
            /\ FlippedX(v) \in Variants(s)
            /\ FlippedY(v) \in Variants(s)
            /\ FlippedX(FlippedX(v)) = v
            /\ FlippedY(FlippedY(v)) = v
            /\ Object(FlippedX(v))["scale"]
                 = <<-Object(v)["scale"][1], Object(v)["scale"][2]>>
            /\ Object(FlippedY(v))["scale"]
                 = <<Object(v)["scale"][1], -Object(v)["scale"][2]>>

\* C19: no two variants, of one sprite or of two, share an id.
C19_Original ==
    ImageArrived =>
        \A a, b \in 1..Len(sheet.st.heap) :
            a # b => Object(a)["id"] # Object(b)["id"]

\* the alpha of the pixel at column px, row py of the quantised image
PixelAlpha(px, py) ==
    Channel(sheet.dataPair[1].data[px + py * sheet.image.width + 1], 3)

OwnCellHasAlpha(s) ==
    \E i \in 0..(sheet.json.spriteSize.x - 1),
       j \in 0..(sheet.json.spriteSize.y - 1) :
        /\ Object(s)["_x"] + i < sheet.image.width
        /\ Object(s)["_y"] + j < sheet.image.height
        /\ PixelAlpha(Object(s)["_x"] + i, Object(s)["_y"] + j) < 255

\* C20: a sprite's alpha flag is set exactly when a pixel of its own cell
\* rectangle, columns _x .. _x+size.x-1 and rows _y .. _y+size.y-1 of the
\* quantised image, has alpha below 255, transposed or not.
C20_Original ==
    ImageArrived =>
        \A s \in Sprites : Object(s)["_hasAlpha"] <=> OwnCellHasAlpha(s)

\* The animation of the names table with its defaults applied: a single
\* cell is its own start, and an omitted end or end coordinate is the start's
Animation == sheet.json.names.animation

WellFormedAnimation ==
    /\ sheet.json.names.kind = "object"
    /\ Animation.hasX # Animation.hasStart

AnimationStart ==
    IF Animation.hasX THEN Point(Animation.x, Animation.y) ELSE Animation.start

AnimationEnd ==
    IF Animation.hasX \/ ~Animation.hasEnd THEN AnimationStart
    ELSE Point(IF Animation.end.hasX THEN Animation.end.x ELSE AnimationStart.x,
               IF Animation.end.hasY THEN Animation.end.y ELSE AnimationStart.y)

\* the cells of the image, whichever way the grid is indexed
InsideGrid(p) ==
    /\ 0 <= p.x
    /\ p.x < (sheet.image.width + sheet.json.gutter)
                 \div (sheet.json.spriteSize.x + sheet.json.gutter)
    /\ 0 <= p.y
    /\ p.y < (sheet.image.height + sheet.json.gutter)
                 \div (sheet.json.spriteSize.y + sheet.json.gutter)

Abs(n) == IF n < 0 THEN -n ELSE n

Sign(n) == IF n < 0 THEN -1 ELSE IF n > 0 THEN 1 ELSE 0

StraightLine ==
    AnimationStart.x = AnimationEnd.x \/ AnimationStart.y = AnimationEnd.y

\* the frames are the sprites of the cells from start to end, in that order
FramesAreTheLine ==
    LET frames == sheet.st.animation.frames
        dx == AnimationEnd.x - AnimationStart.x
        dy == AnimationEnd.y - AnimationStart.y
    IN  /\ sheet.st.error = ""
        /\ Len(frames) = Abs(dx) + Abs(dy) + 1
        /\ \A i \in 1..Len(frames) :
              /\ frames[i] \in Sprites
              /\ Object(frames[i])["tileIndex"]
                   = <<AnimationStart.x + (i - 1) * Sign(dx),
                       AnimationStart.y + (i - 1) * Sign(dy)>>

Ascending ==
    AnimationStart.x <= AnimationEnd.x /\ AnimationStart.y <= AnimationEnd.y

\* C13 as stated: a straight animation inside the grid is materialised as
\* the cells from start to end inclusive, |end - start| + 1 of them,
\* whichever of start and end has the larger coordinate.
C13_Original ==
    (ImageArrived /\ WellFormedAnimation /\ StraightLine
        /\ InsideGrid(AnimationStart) /\ InsideGrid(AnimationEnd))
      => FramesAreTheLine

\* C13: a straight animation inside the grid whose end is not before its
\* start is materialised as the cells from start to end inclusive, in that
\* order, |end - start| + 1 of them (1 for a single cell or an omitted end);
\* when the end is before the start the sequence is empty and nothing is
\* reported.
C13_AscendingRange ==
    (ImageArrived /\ WellFormedAnimation /\ StraightLine
        /\ InsideGrid(AnimationStart) /\ InsideGrid(AnimationEnd))
      => IF Ascending THEN FramesAreTheLine
         ELSE /\ sheet.st.error = ""
              /\ sheet.st.animation.defined
              /\ sheet.st.animation.frames = <<>>

\* start (0,0), end (2,0): the sprites at (0,0), (1,0), (2,0)
C13_Witness ==
    /\ ImageArrived
    /\ WellFormedAnimation
    /\ AnimationStart = Point(0, 0)
    /\ AnimationEnd = Point(2, 0)
    /\ Animation.hasEnd
    /\ Len(sheet.st.animation.frames) = 3
    /\ Object(sheet.st.animation.frames[3])["tileIndex"] = <<2, 0>>

\* The flip bits and the index of the number <<top, low>>, by arithmetic
GidFlipX(gid) == gid[1] >= 8

GidFlipY(gid) == (gid[1] % 8) >= 4

\* the GID that the loops read for layer[x][y]
GidAt(L, x, y) ==
    LET last == sheet.doc.layers[Len(sheet.doc.layers)]
        row == IF sheet.mapJSON.flipY THEN last.height - 1 - y ELSE y
        i == x + row * last.width
    IN  IF i < Len(sheet.doc.layers[L].data) THEN sheet.doc.layers[L].data[i + 1]
        ELSE <<0, 0>>

\* the cell holds the variant, of the flips the GID asks for, of the sprite
\* at column index mod columns and row index div columns of the grid
HoldsTile(cell, gid, columns) ==
    LET index == gid[2] - 1
        sx == index % columns
        sy == index \div columns
    IN  IF gid[2] = 0 THEN cell = NoSprite
        ELSE <<sx, sy>> \in DOMAIN sheet.st.grid =>
               /\ cell # NoSprite
               /\ cell \in Variants(sheet.st.grid[<<sx, sy>>])
               /\ SameCell(cell, sheet.st.grid[<<sx, sy>>])
               /\ Object(cell)["scale"]
                    = <<IF GidFlipX(gid) THEN -1 ELSE 1,
                        IF GidFlipY(gid) THEN -1 ELSE 1>>

\* C16 as stated: the column count used to split the index is that of the
\* decoded sheet.
C16_Original ==
    (sheet.pc = "map" /\ sheet.map.sealed) =>
        \A L \in 1..Len(sheet.map.layer) : \A c \in DOMAIN sheet.map.layer[L] :
            HoldsTile(sheet.map.layer[L][c], GidAt(L, c[1], c[2]), sheet.st.cols)

\* C16: a GID whose low 28 bits are 0 leaves the cell without a sprite;
\* otherwise, with index = low 28 bits - 1 and columns the tileset's
\* columns attribute in the tile document, the cell holds the sprite at
\* column index mod columns and row index div columns of the sheet's grid,
\* when the grid has that cell, as its flip-X variant when bit 31 is set,
\* its flip-Y variant when bit 30 is set and its flip-both variant when both
\* are.
C16_GidDecode ==
    (sheet.pc = "map" /\ sheet.map.sealed) =>
        \A L \in 1..Len(sheet.map.layer) : \A c \in DOMAIN sheet.map.layer[L] :
            HoldsTile(sheet.map.layer[L][c], GidAt(L, c[1], c[2]),
                      sheet.doc.columns)

\* 0x80000001 in a document of as many columns as the sheet has: the
\* flip-X variant of cell (0,0)
C16_Witness ==
    /\ sheet.pc = "map"
    /\ sheet.map.sealed
    /\ sheet.doc.columns = sheet.st.cols
    /\ sheet.st.cols = 3
    /\ \E L \in 1..Len(sheet.map.layer) : \E c \in DOMAIN sheet.map.layer[L] :
          /\ GidAt(L, c[1], c[2]) = <<8, 1>>
          /\ Object(sheet.map.layer[L][c])["tileIndex"] = <<0, 0>>
          /\ Object(sheet.map.layer[L][c])["scale"] = <<-1, 1>>

(***************************************************************************)
(* Claims about _parse.                                                    *)
(***************************************************************************)
Parsed == parse.outcome.done /\ parse.start = 0

Whitespace == {" ", "\t", "\n"}

WhitespaceOnly(text) == \A k \in 1..Len(text) : text[k] \in Whitespace

Holds(text, c) == \E k \in 1..Len(text) : text[k] = c

StartsWith(text, c) == Len(text) >= 1 /\ text[1] = c

Rest(text) == Substring(text, 1, Len(text))

\* a quoted string with no closing quote
UnterminatedString(text) == StartsWith(text, "\"") /\ ~Holds(Rest(text), "\"")

\* an array with no closing ']'
UnterminatedArray(text) == StartsWith(text, "[") /\ ~Holds(text, "]")

\* a table with no closing '}'
UnterminatedTable(text) == StartsWith(text, "{") /\ ~Holds(text, "}")

\* a structural character standing where an atom starts
EmptyToken(text) == \E c \in {",", ":", "]", "}"} : StartsWith(text, c)

\* a table of one key, written in digits, and no value
KeyWithoutValue(text) ==
    /\ Len(text) >= 2
    /\ text[1] = "{"
    /\ IsDigit(text[2])
    /\ \A k \in 3..Len(text) : IsDigit(text[k]) \/ text[k] = ":"
    /\ \A k \in 3..(Len(text) - 1) : text[k] = ":" => text[k + 1] = ":"

\* C14: an array literal written from a value of numeric atoms and nested
\* arrays, with commas and/or spaces between the elements and with or without
\* a space before a closing bracket, parses to that value: the same nesting,
\* the same elements, the same order.
C14_Original ==
    (Parsed /\ parse.literal) =>
        /\ ~parse.outcome.threw
        /\ parse.outcome.result = parse.value

\* C15 as stated: every unterminated text and every empty atom ends in the
\* end-of-input error.
C15_Original ==
    (Parsed /\ ( \/ WhitespaceOnly(parse.source)
                 \/ UnterminatedString(parse.source)
                 \/ UnterminatedArray(parse.source)
                 \/ UnterminatedTable(parse.source)
                 \/ EmptyToken(parse.source) )) =>
        parse.outcome.threw

\* C15: _parse ends in the end-of-input error where it looks for a value and
\* nothing but whitespace is left: on an empty or whitespace-only text and on
\* a table whose key has no value, and on no text that is neither
\* whitespace-only nor holds a '{'.  The other unterminated texts return: a
\* string with no closing quote is the rest of the text, '[' or '{' followed
\* by whitespace only is the empty array or table, and a structural character
\* at the start is NaN with the next offset 1.
C15_EndOfInput ==
    Parsed =>
        LET text == parse.source
            out == parse.outcome
        IN  /\ WhitespaceOnly(text) => out.threw
            /\ KeyWithoutValue(text) => out.threw
            /\ out.threw => (WhitespaceOnly(text) \/ Holds(text, "{"))
            /\ UnterminatedString(text) =>
                  /\ ~out.threw
                  /\ out.result.t = "string"
                  /\ out.result.s = Rest(text)
                  /\ out.next = Len(text) + 1
            /\ (StartsWith(text, "[") /\ WhitespaceOnly(Rest(text))) =>
                  /\ ~out.threw
                  /\ out.result.t = "array"
                  /\ out.result.a = <<>>
            /\ (StartsWith(text, "{") /\ WhitespaceOnly(Rest(text))) =>
                  /\ ~out.threw
                  /\ out.result.t = "table"
                  /\ DOMAIN out.result.m = {}
            /\ EmptyToken(text) =>
                  /\ ~out.threw
                  /\ out.result.t = "NaN"
                  /\ out.next = 1

C15_Witness ==
    /\ Parsed
    /\ parse.source = <<"{", "1", ":", ":">>
    /\ parse.outcome.threw

C15_WitnessEmptyToken ==
    /\ Parsed
    /\ parse.source = <<",", "1">>
    /\ parse.outcome.result.t = "NaN"

(***************************************************************************)
(* Claims about the names table of a sprite sheet.                         *)
(***************************************************************************)
Rejected == sheet.st.error # "" /\ sheet.st.callbacks = 0

Accepted == sheet.st.error = "" /\ sheet.st.callbacks = 1

NotAnObject == sheet.json.names.kind \in {"array", "string", "zero"}

BothForms ==
    sheet.json.names.kind = "object" /\ Animation.hasX /\ Animation.hasStart

NeitherForm ==
    sheet.json.names.kind = "object" /\ ~Animation.hasX /\ ~Animation.hasStart

Diagonal == WellFormedAnimation /\ ~StraightLine

OutsideGrid ==
    /\ WellFormedAnimation
    /\ ~InsideGrid(AnimationStart) \/ ~InsideGrid(AnimationEnd)

\* C21 as stated: an entry with both forms, with neither, with a diagonal
\* range or with a cell outside the grid, and a names value that is an array
\* or not an object, are all rejected without the completion callback.
C21_Original ==
    (ImageArrived /\ (NotAnObject \/ BothForms \/ NeitherForm \/ Diagonal
                        \/ OutsideGrid))
      => Rejected

\* C21: the decoder rejects, without the completion callback, exactly: a
\* names value that is an array or a (non-empty) string, an entry with both
\* forms or with neither, a diagonal range, and a straight range whose end is
\* not before its start and that has a cell outside the grid.  A falsy names
\* value (0) is taken as no names table, and a straight range whose end is
\* before its start is accepted with an empty sequence wherever its cells
\* lie.
C21_Rejects ==
    ImageArrived =>
        /\ Rejected <=>
              \/ sheet.json.names.kind \in {"array", "string"}
              \/ BothForms
              \/ NeitherForm
              \/ Diagonal
              \/ OutsideGrid /\ StraightLine /\ Ascending
        /\ ~Rejected => Accepted
        /\ sheet.json.names.kind = "zero" => ~sheet.st.animation.defined
        /\ (WellFormedAnimation /\ StraightLine /\ ~Ascending) =>
              /\ sheet.st.animation.defined
              /\ sheet.st.animation.frames = <<>>

\* start (0,0), end (1,1) on a grid that has both cells
C21_Witness ==
    /\ ImageArrived
    /\ Diagonal
    /\ AnimationStart = Point(0, 0)
    /\ AnimationEnd = Point(1, 1)
    /\ InsideGrid(AnimationEnd)
    /\ sheet.st.error = "NotALine"
    /\ sheet.st.callbacks = 0

\* C22: a sequence carries the extrapolate value its entry declares, in the
\* single-cell and in the range form; without a declared value a single
\* cell is "clamp" and a range is "loop".
C22_Original ==
    (ImageArrived /\ WellFormedAnimation /\ sheet.st.animation.defined) =>
        sheet.st.animation.extrapolate =
            IF Animation.extrapolate # "" THEN Animation.extrapolate
            ELSE IF Animation.hasX THEN "clamp" ELSE "loop"

(***************************************************************************)
(* Claims about what is frozen when a sheet is handed over.                *)
(***************************************************************************)
\* loadSpritesheet's completion callback has run
HandedOver == sheet.pc # "fetch" /\ sheet.st.callbacks > 0

AllFrozen ==
    /\ sheet.st.frozen
    /\ sheet.st.frozenColumns = 0..(sheet.st.cols - 1)
    /\ \A a \in Sprites : Variants(a) \subseteq sheet.st.frozenObjects
    /\ sheet.st.animation.defined => sheet.st.animation.frozen

\* C23: when loadSpritesheet's completion callback runs the sheet, each of
\* its columns, every sprite, every orientation variant and every animation
\* sequence is frozen, and no later step of the decoding (the tile document
\* of a map that uses the sheet) changes any of them.
C23_FrozenWhenHandedOver ==
    /\ [](HandedOver => AllFrozen)
    /\ [][HandedOver => sheet.st' = sheet.st]_vars

\* a sheet with an animation of two frames, after the map that uses it was
\* decoded
C23_Witness ==
    /\ sheet.pc = "map"
    /\ sheet.map.sealed
    /\ Len(sheet.st.animation.frames) = 2
    /\ sheet.st.animation.frozen
    /\ sheet.st.frozenObjects = 1..8
    /\ sheet.st.frozenColumns = {0, 1}

\* the part of C23 seen by the load: when the success callback runs the
\* handler of every sheet and map in the asset table has run to its end
C23_LoadSuccess ==
    load.successCalls > 0 =>
        \A a \in DOMAIN load.assetTable :
            load.assetTable[a].kind \in {"sprite", "map"} => a \in load.decoded

\* the offset just past the first c of the text
JustPast(text, c) ==
    CHOOSE k \in 1..Len(text) :
        text[k] = c /\ \A j \in 1..(k - 1) : text[j] # c

\* C24: an ellipsis standing as an element of an array or as a key of a
\* table, bare or quoted, with or without whitespace before the closer, gives
\* the empty array or the empty table, whatever was read before it, with the
\* next offset just past the closer and no error.
C24_Original ==
    /\ (Parsed /\ parse.source \in EllipsisArrays) =>
          /\ ~parse.outcome.threw
          /\ parse.outcome.result = Array(<<>>)
          /\ parse.outcome.next = JustPast(parse.source, "]")
    /\ (Parsed /\ parse.source \in EllipsisTables) =>
          /\ ~parse.outcome.threw
          /\ parse.outcome.result = Table(<<>>)
          /\ parse.outcome.next = JustPast(parse.source, "}")

\* what holds of the quoted ellipsis
C24_QuotedEllipsis ==
    /\ (Parsed /\ parse.source \in EllipsisArrays /\ Holds(parse.source, "\"")) =>
          /\ ~parse.outcome.threw
          /\ parse.outcome.result = Array(<<>>)
          /\ parse.outcome.next = JustPast(parse.source, "]")
    /\ (Parsed /\ parse.source \in EllipsisTables /\ Holds(parse.source, "\"")) =>
          /\ ~parse.outcome.threw
          /\ parse.outcome.result = Table(<<>>)
          /\ parse.outcome.next = JustPast(parse.source, "}")

ConstantTexts == {c[1] : c \in CasedConstants \cup PercentConstants}

\* C25: an atom is matched against the table of named constants whatever its
\* case, and gives the value the table designates for it: the booleans, the
\* absent value, the infinities, the fractions and their negations, pi and
\* its negation as numbers; a token that ends in % gives its number divided
\* by 100.
C25_Original ==
    (Parsed /\ parse.source \in ConstantTexts) =>
        /\ ~parse.outcome.threw
        /\ parse.outcome.result = parse.value

\* what holds of every entry but pi and its negation
C25_ExceptPi ==
    (Parsed /\ parse.source \in ConstantTexts
        /\ ~Holds(toLowerCase(parse.source), "U+03C0")) =>
        /\ ~parse.outcome.threw
        /\ parse.outcome.result = parse.value

(***************************************************************************)
(* Claims about the layers of a map.                                       *)
(***************************************************************************)
MapDecoded == sheet.pc = "map" /\ sheet.map.error = ""

\* every layer of the document has the size W x H and W * H numbers
MapSize == <<sheet.doc.layers[1].width, sheet.doc.layers[1].height>>

ConsistentDocument ==
    \A L \in 1..Len(sheet.doc.layers) :
        /\ <<sheet.doc.layers[L].width, sheet.doc.layers[L].height>> = MapSize
        /\ Len(sheet.doc.layers[L].data) = MapSize[1] * MapSize[2]

\* C26: layer 0 is the map object itself and every later layer a grid of
\* its own; each layer has W columns of H entries; the GID number
\* k = x + y * W of a layer's data is stored at layer[x][y], or at
\* layer[x][H - 1 - y] when flipY is true; the columns and the layer list
\* are sealed.
C26_Layers ==
    (MapDecoded /\ ConsistentDocument) =>
        LET W == MapSize[1]
            H == MapSize[2]
            map == sheet.map
        IN  /\ Len(map.layer) = Len(sheet.doc.layers)
            /\ \A L \in 1..Len(map.layer) :
                  /\ map.isMap[L] <=> L = 1
                  /\ DOMAIN map.layer[L] = (0..(W - 1)) \X (0..(H - 1))
                  /\ map.sealedColumns[L] = 0..(W - 1)
                  /\ \A x \in 0..(W - 1), y \in 0..(H - 1) :
                        map.layer[L][<<x, IF sheet.mapJSON.flipY THEN H - 1 - y
                                          ELSE y>>]
                          = tileSprite(sheet.st, sheet.doc.columns,
                                       sheet.doc.layers[L].data[x + y * W + 1])
            /\ map.own = map.layer[1]
            /\ map.sealed

\* three layers of 2 x 2 read with flipY: the sprite of the first number of
\* layer 0 is in the last row of the map's own grid, the cell above it is
\* empty, and the flip-Y variant of the second number of layer 1 is in the
\* last row of that layer
C26_Witness ==
    /\ MapDecoded
    /\ ConsistentDocument
    /\ sheet.mapJSON.flipY
    /\ Len(sheet.map.layer) = 3
    /\ MapSize = <<2, 2>>
    /\ sheet.map.own[<<0, 1>>] # NoSprite
    /\ Object(sheet.map.own[<<0, 1>>])["scale"] = <<1, 1>>
    /\ sheet.map.own[<<1, 1>>] = NoSprite
    /\ Object(sheet.map.layer[2][<<1, 1>>])["scale"] = <<1, -1>>

SheetMatchesDocument ==
    /\ sheet.json.spriteSize.x = sheet.doc.tilewidth
    /\ sheet.json.spriteSize.y = sheet.doc.tileheight
    /\ sheet.st.size[1] = sheet.doc.width
    /\ sheet.st.size[2] = sheet.doc.height

NameMatches ==
    sheet.mapJSON.key = "<default>" \/ sheet.mapJSON.key = sheet.doc.name

\* C27: the layers are populated only if the sheet's cell size is the
\* document's tilewidth x tileheight and its pixel size the width x height
\* of the image element; if one of the four differs the handler ends in an
\* error, the mismatch error of the sizes when the sheet's name is accepted,
\* and the map keeps an empty layer list and no cell.
C27_SheetMismatch ==
    sheet.pc = "map" =>
        /\ (sheet.map.layer # <<>> \/ sheet.map.own # <<>>) => SheetMatchesDocument
        /\ ~SheetMatchesDocument =>
              /\ sheet.map.error # ""
              /\ NameMatches =>
                    sheet.map.error \in {"SpriteSizeMismatch", "SheetSizeMismatch"}
              /\ sheet.map.layer = <<>>
              /\ sheet.map.own = <<>>
              /\ ~sheet.map.sealed

\* an image element one pixel higher than the sheet
C27_Witness ==
    /\ sheet.pc = "map"
    /\ sheet.doc.height = sheet.st.size[2] + 1
    /\ sheet.doc.width = sheet.st.size[1]
    /\ sheet.map.error = "SheetSizeMismatch"
    /\ sheet.map.layer = <<>>

(***************************************************************************)
(* Claims about evalJSONGameConstant.                                      *)
(***************************************************************************)
ConstantEvaluated == constEval.outcome.done

\* C28: evalJSONGameConstant never returns a value for an unsupported
\* definition: a definition of type grid, object or array fails with a
\* not-implemented error, which is not the error of an unknown type, and a
\* definition of any type outside the twelve declared ones fails with the
\* unrecognised-type error.
C28_Original ==
    ConstantEvaluated =>
        /\ constEval.json.type \in DeclaredTypes =>
              /\ constEval.outcome.threw
              /\ constEval.outcome.error = "NotImplemented"
        /\ constEval.json.type \notin ImplementedTypes \cup DeclaredTypes =>
              /\ constEval.outcome.threw
              /\ constEval.outcome.error = "UnrecognizedDataType"

\* what does hold: no value is returned for any of them, and the three
\* declared types throw what an unknown type throws after logging
C28_NeverReturns ==
    ConstantEvaluated /\ constEval.json.type \notin ImplementedTypes =>
        /\ constEval.outcome.threw
        /\ constEval.outcome.error = "UnrecognizedDataType"
        /\ constEval.outcome.logged > 0 <=> constEval.json.type \in DeclaredTypes

(***************************************************************************)
(* Claims about the asset credits.                                         *)
(***************************************************************************)
LoadSucceeded == load.successCalls > 0

\* gameSource.assets read in the alphabetical order of its keys
AlphabeticalAssetList ==
    LET keys == SortedKeys(load.assetTable)
    IN  [k \in 1..Len(keys) |->
            CHOOSE asset \in {load.assetList[j] : j \in 1..Len(load.assetList)} :
                asset.name = keys[k]]

\* C29: for a fixed manifest and fixed contents of every fetched resource,
\* the computed asset credits (the grouping of assets under licences, the
\* order of the names inside each credit line and the order of the lines
\* of each type) are the same for every order in which the asset fetches
\* complete: they are the credits of the assets taken alphabetically.
C29_Original ==
    LoadSucceeded =>
        load.assetCredits = creditsInOrder(load, AlphabeticalAssetList)

Elements(s) == {s[k] : k \in 1..Len(s)}

\* what does hold: which names stand under which licence
C29_SameGrouping ==
    LoadSucceeded =>
        \A type \in CreditedTypes :
            {[assets |-> Elements(line.assets), license |-> line.license] :
                line \in Elements(load.assetCredits[type])}
              = {[assets |-> Elements(line.assets), license |-> line.license] :
                    line \in Elements(creditsInOrder(load, AlphabeticalAssetList)[type])}

(***************************************************************************)
(* Claims about the structural errors of the manifest.                     *)
(***************************************************************************)
StructuralErrors ==
    {Err(e, "") : e \in {"UnsupportedScreenSize", "ScriptsNotAnArray",
                         "ScriptNotAUrl", "ModesNotAnArray", "NoStartingMode",
                         "TooManyStartingModes", "AssetsNotAnObject"}}
      \cup {Err("UnsupportedFileFormat", c) : c \in Elements(NameOrder)}

StructuralErrorRaised == load.errors \cap StructuralErrors # {}

\* the section of the manifest whose fetch a handler completes: 1 scripts,
\* 2 modes, 3 constants, 4 assets, 5 what an asset's handler fetches, 0 the
\* manifest itself and the logo
SectionOf(r) ==
    CASE r.h = "script" -> 1
      [] r.h = "mode" -> 2
      [] r.h = "constant" -> 3
      [] r.h = "asset" -> 4
      [] r.h = "manifest" -> 0
      [] r.h = "sheetImage" /\ r.name = "_quadplayLogoSprite" -> 0
      [] OTHER -> 5

\* the last section whose loop has scheduled fetches when the error is thrown
LastSectionBefore(error) ==
    CASE error.error \in {"UnsupportedScreenSize", "ScriptsNotAnArray"} -> 0
      [] error.error \in {"ScriptNotAUrl", "ModesNotAnArray"} -> 1
      [] error.error \in {"NoStartingMode", "TooManyStartingModes"} -> 2
      [] error.error \in {"UnsupportedFileFormat", "AssetsNotAnObject"} -> 3

\* gameSource, fileContents and resourceStats, and the handlers run
ResultOf(s) ==
    <<s.fields, s.scripts, s.modes, s.numStartModes, s.constants, s.assetTable,
      s.assetList, s.assetCredits, s.decoded, s.fileContents, s.spritesheets,
      s.sounds, s.ran, s.successCalls>>

EarlierCompletion == earlier.status # "none" /\ earlier' # earlier

\* gameSource, the asset table, fileContents, resourceStats, the counter of
\* the LoadManager of the later call and its callbacks' invocations
OwnedByLoad(s) ==
    <<s.fields, s.scripts, s.modes, s.numStartModes, s.constants, s.assetTable,
      s.assetList, s.assetCredits, s.fileContents, s.spritesheets, s.sounds,
      s.pendingRequests, s.status, s.successCalls, s.failureCalls>>

\* C31: when afterLoadGame is called again while fetches of an earlier call
\* are outstanding, no completion of the earlier load changes the game
\* source, asset table, file cache, resource statistics or
\* outstanding-request counter of the later load, nor whether its success
\* callback is called.
C31_Original ==
    [][EarlierCompletion => OwnedByLoad(load') = OwnedByLoad(load)]_vars

(***************************************************************************)
(* Claims about which assets the credits name.                             *)
(***************************************************************************)
AssetsLoaded == Elements(load.assetList)

DeclaresLicense(url) == ServerJSON(url).license # <<>>

\* the asset of the descriptor at url is named in a credit line of the type
NamedUnder(type, url) ==
    \E line \in Elements(load.assetCredits[type]) :
        /\ creditName(url) \in Elements(line.assets)
        /\ line.license = canonicalizeLicense(ServerJSON(url).license)

SheetOf(asset) ==
    makeURLAbsolute(asset.jsonURL, ServerJSON(asset.jsonURL).spriteUrl)

\* C32 as stated: after credit aggregation every asset of the asset table
\* whose descriptor declares a licence is named in a credit line, whatever
\* its type, and so is every licensed sheet a map refers to.
C32_Original ==
    LoadSucceeded =>
        \A asset \in AssetsLoaded :
            /\ DeclaresLicense(asset.jsonURL) =>
                  \E type \in CreditedTypes : NamedUnder(type, asset.jsonURL)
            /\ (assetTypeOf(asset.jsonURL) = "map"
                  /\ DeclaresLicense(SheetOf(asset))) =>
                  NamedUnder("sprite", SheetOf(asset))

\* What the aggregation does credit: every font, sprite and sound asset whose
\* descriptor declares a licence is named in a credit line of its type
\* under that licence in canonical form, and every licensed sheet a map
\* refers to is named in a sprite credit line; a map's own licence is not
\* credited: the map is named in no credit line of any type.
C32_CreditedByType ==
    LoadSucceeded =>
        \A asset \in AssetsLoaded :
            /\ (DeclaresLicense(asset.jsonURL)
                  /\ assetTypeOf(asset.jsonURL) \in {"font", "sprite", "sound"}) =>
                  NamedUnder(assetTypeOf(asset.jsonURL), asset.jsonURL)
            /\ assetTypeOf(asset.jsonURL) = "map" =>
                  /\ DeclaresLicense(SheetOf(asset)) =>
                        NamedUnder("sprite", SheetOf(asset))
                  /\ \A type \in CreditedTypes :
                        \A line \in Elements(load.assetCredits[type]) :
                            creditName(asset.jsonURL) \notin Elements(line.assets)

(***************************************************************************)
(* Claims about the progress of _parse.                                    *)
(***************************************************************************)
ParseReturned == parse.outcome.done /\ ~parse.outcome.threw

\* C33: for every text and every start offset, whenever _parse returns, the
\* next offset it reports is strictly greater than the offset it started
\* from, so that each pass of the loops over array elements and table
\* entries, which continue from that offset, moves on and the call ends,
\* by returning or by raising, after finitely many passes.
C33_ParseProgress ==
    ParseReturned => parse.outcome.next > parse.start

\* _parse has returned from a call that started inside a text, at an
\* array whose element loop ran, and from a call at a table with an entry
C33_Witness ==
    /\ ParseReturned
    /\ parse.start > 0
    /\ parse.source[parse.start + 1] = "["
    /\ parse.outcome.result.t = "array"
    /\ Len(parse.outcome.result.a) > 0

(***************************************************************************)
(* Claims about the resource statistics.                                   *)
(***************************************************************************)
\* the sheet images whose completion handler has run, by URL
SheetImagesRun == {r.url : r \in {q \in load.ran : q.h = "sheetImage"}}

FontHandlersRun == {q \in load.ran : q.h = "fontImage"}

RECURSIVE SheetPixels(_)
SheetPixels(urls) ==
    IF urls = {} THEN 0
    ELSE LET url == CHOOSE u \in urls : TRUE
         IN  ImageData(url).width * ImageData(url).height
                + SheetPixels(urls \ {url})

RECURSIVE FontPixels(_)
FontPixels(handlers) ==
    IF handlers = {} THEN 0
    ELSE LET q == CHOOSE h \in handlers : TRUE
         IN  FontData(q.url).width * FontData(q.url).height
                + FontPixels(handlers \ {q})

Widest(sizes) == IF sizes = {} THEN 0 ELSE CHOOSE w \in sizes : \A v \in sizes : v <= w

ResourceStats(s) ==
    <<s.spritePixels, s.spritesheets, s.maxSpritesheetWidth,
      s.maxSpritesheetHeight, s.sounds>>

\* C34: within one load a sheet image is added to the sprite-pixel total,
\* the sheet count and the maximum sheet dimensions exactly once, however
\* many completion handlers run for its URL and in whatever order: the
\* statistics are those of the distinct sheet images handled, next to one
\* entry for each font handled; and no step of the load lowers a statistic.
C34_CountedOnce ==
    /\ [](/\ load.spritesheets =
                Cardinality(SheetImagesRun) + Cardinality(FontHandlersRun)
          /\ load.spritePixels =
                SheetPixels(SheetImagesRun) + FontPixels(FontHandlersRun)
          /\ load.maxSpritesheetWidth =
                Widest({ImageData(u).width : u \in SheetImagesRun}
                          \cup {FontData(q.url).width : q \in FontHandlersRun})
          /\ load.maxSpritesheetHeight =
                Widest({ImageData(u).height : u \in SheetImagesRun}
                          \cup {FontData(q.url).height : q \in FontHandlersRun}))
    /\ [][\A k \in 1..5 : ResourceStats(load')[k] >= ResourceStats(load)[k]]_vars

\* the handler of one sheet image has run for a sprite asset and for the
\* sheet of a map, next to the handler of the logo
C34_Witness ==
    /\ \E q, r \in load.ran :
          /\ q.h = "sheetImage" /\ r.h = "sheetImage"
          /\ q.url = r.url /\ q.name # r.name
          /\ \E asset \in Elements(load.assetList) :
                assetTypeOf(asset.jsonURL) = "map" /\ asset.name \in {q.name, r.name}
    /\ logoURL \in SheetImagesRun
    /\ load.spritesheets = 2

====
